---- MODULE Spec2Model ----
(***************************************************************************)
(* RUSLE soil-loss service: the adaptive scale selector, the job-result    *)
(* cache with its process / statistics / export handlers, and the raster   *)
(* factor builders with the combination engine.                            *)
(*                                                                         *)
(* Eleven specifications share the module:                                 *)
(*   Spec        the request handlers of app/routers/process.py and        *)
(*               app/routers/visualize.py, one handler run per step        *)
(*   SpecConc    the same handlers in flight together, one cache access    *)
(*               per step                                                  *)
(*   SpecScale   the pure function _get_minimum_scale and the selection    *)
(*               max(requested, minimum) applied to drawn inputs           *)
(*   SpecExponent the slope-length exponent m as a pure function           *)
(*   SpecRaster  RUSLECalculator.calculate, one builder per step           *)
(*   SpecPFactor the land-cover lookup of the application and the script   *)
(*   SpecTile    RUSLECalculator.get_tile_url as a pure function           *)
(*   SpecWindow  the request's date window from validation to the builders *)
(*   SpecRuns    two runs of process_rusle's calculation side by side      *)
(*   SpecSession upload, cleanup and the requests that use a session       *)
(*   SpecInit    gee_service.initialize_earth_engine                       *)
(***************************************************************************)
EXTENDS Integers, Sequences, FiniteSets, TLC

VARIABLES
    gee_initialized,   \* gee_service._gee_initialized
    results_cache,     \* process._results_cache : job id -> cached entry
    job_counter,       \* number of job ids handed out (uuid4 is always fresh)
    outcome,           \* what the last handler returned and asked of the engine
    tasks,             \* SpecConc: the requests in flight, one per slot
    written,           \* SpecConc: history, job id -> the entry stored for it
    sessions,          \* SpecSession: the session directories under upload_dir
    session_counter,   \* SpecSession: number of session ids handed out
    upload,            \* SpecSession: what the last session operation returned
    cleaned,           \* SpecSession: history, the sessions cleanup_session returned for
    init,              \* SpecInit: the last initialize_earth_engine call
    verified,          \* SpecInit: history, some call completed all its steps
    sel,               \* SpecScale: the current selector evaluation
    selPrev,           \* SpecScale: the evaluation before it
    mx,                \* SpecExponent: one evaluation of the exponent m
    pf,                \* SpecPFactor: one evaluation of both P-factor builders
    tile,              \* SpecTile: one call of get_tile_url
    win,               \* SpecWindow: one request's dates and what R is built from
    runs,              \* SpecRuns: the results of two calculations
    pc,                \* SpecRaster: position inside calculate()
    in_aoi,            \* SpecRaster: the sampled pixel lies inside inputs.aoi
    inputs,            \* SpecRaster: the optional custom factors of RUSLEInput
    src,               \* SpecRaster: the source data the last builder loaded
    layers,            \* SpecRaster: factor layers as they enter the product
    result             \* SpecRaster: the RUSLEResult returned by calculate()

routerVars == <<gee_initialized, results_cache, job_counter, outcome>>
concVars   == <<tasks, written>>
hostVars   == <<sessions, session_counter, upload, cleaned, init, verified>>
scaleVars  == <<sel, selPrev>>
expVars    == <<mx, pf, tile, win, runs>>
rasterVars == <<pc, in_aoi, inputs, src, layers, result>>
vars == <<gee_initialized, results_cache, job_counter, outcome, tasks, written,
          sessions, session_counter, upload, cleaned, init, verified,
          win, runs,
          sel, selPrev, mx, pf, tile, pc, in_aoi, inputs, src, layers, result>>

Max(a, b) == IF a >= b THEN a ELSE b

(***************************************************************************)
(* Adaptive scale selector (app/routers/process.py)                        *)
(***************************************************************************)

\* MIN_EXPORT_SCALE_BY_LEVEL: admin level -> minimum export scale (m)
MIN_EXPORT_SCALE_BY_LEVEL == (0 :> 250) @@ (1 :> 90) @@ (2 :> 30)

\* mutant: the 100,000 km2 tier mistyped as 25 m
AREA_SCALE_THRESHOLDS_Typo ==
    << <<500000, 500>>, <<100000, 25>>, <<10000, 90>>, <<1000, 30>>, <<0, 10>> >>

\* AREA_SCALE_THRESHOLDS: (threshold km2, scale) pairs, largest first
AREA_SCALE_THRESHOLDS ==
    << <<500000, 500>>, <<100000, 250>>, <<10000, 90>>, <<1000, 30>>, <<0, 10>> >>

\* dict.get(key, default)
DictGet(d, k, default) == IF k \in DOMAIN d THEN d[k] ELSE default

\* the for/break loop of _get_minimum_scale from position i on;
\* area_min keeps its initial value 10 when no threshold is exceeded
RECURSIVE AreaScan(_, _)
AreaScan(area_km2, i) ==
    IF i > Len(AREA_SCALE_THRESHOLDS) THEN 10
    ELSE IF area_km2 > AREA_SCALE_THRESHOLDS[i][1]
         THEN AREA_SCALE_THRESHOLDS[i][2]
         ELSE AreaScan(area_km2, i + 1)

\* mutant: unknown levels fall back to the finest scale instead of 90
LevelMin_Default10(admin_level) ==
    DictGet(MIN_EXPORT_SCALE_BY_LEVEL, admin_level, 10)

LevelMin(admin_level) == DictGet(MIN_EXPORT_SCALE_BY_LEVEL, admin_level, 90)

\* mutant: thresholds compared with >= instead of >
RECURSIVE AreaScanGe(_, _)
AreaScanGe(area_km2, i) ==
    IF i > Len(AREA_SCALE_THRESHOLDS) THEN 10
    ELSE IF area_km2 >= AREA_SCALE_THRESHOLDS[i][1]
         THEN AREA_SCALE_THRESHOLDS[i][2]
         ELSE AreaScanGe(area_km2, i + 1)

AreaMin_Ge(area_km2) == AreaScanGe(area_km2, 1)

AreaMin(area_km2) == AreaScan(area_km2, 1)

\* _get_minimum_scale(area_km2, admin_level)
GetMinimumScale(area_km2, admin_level) ==
    Max(LevelMin(admin_level), AreaMin(area_km2))

\* mutant: the minimum replaces the requested scale
AdjustedScale_MinOnly(export_scale, min_scale) == min_scale

\* process_rusle: adjusted_scale = max(request.export_scale, min_scale)
AdjustedScale(export_scale, min_scale) == Max(export_scale, min_scale)

\* process_rusle: scale_was_adjusted = adjusted_scale != request.export_scale
ScaleWasAdjusted(adjusted_scale, export_scale) == adjusted_scale # export_scale

(***************************************************************************)
(* Request handlers and the job-result cache (app/routers/process.py)      *)
(***************************************************************************)

MaxJobs == 2

\* job ids a client may name; uuid4 never repeats, so ids are handed out in order
JobIds == 1..MaxJobs

\* ProcessRequest.export_scale: Field(90, ge=10, le=1000), sampled
ExportScales == {10, 90}

\* ProcessRequest.admin_level: Field(1, ge=0, le=2)
AdminLevels == 0..2

\* values aoi.area().divide(1e6).getInfo() may return (km2), sampled
AoiAreas == {500, 50000, 600000}

\* ProcessRequest, reduced to the fields the handlers read
ProcessRequest == [export_scale : ExportScales, admin_level : AdminLevels]

\* what a handler returned (status, body fields) and what it asked of its
\* collaborators while running (call counts, arguments)
NoOutcome ==
    [op |-> "none", status |-> 0, job_id |-> 0, export_scale |-> 0,
     admin_level |-> 0, area_km2 |-> 0, export_scale_used |-> 0,
     scale_adjusted |-> FALSE, engine_call |-> "none", engine_scale |-> 0,
     fate |-> "none", aoi_source |-> "none", generated_job_id |-> 0,
     count_queries |-> 0, area_queries |-> 0, scale_selected |-> FALSE,
     calculators |-> 0, calculate_calls |-> 0, tile_requests |-> 0,
     centroid_queries |-> 0, reductions |-> 0, statistics |-> FALSE,
     tasks_created |-> 0, task_starts |-> 0, status_queries |-> 0,
     task_id |-> 0, folder |-> "none",
     task |-> [image |-> <<>>, description |-> <<>>, folder |-> "none",
               region |-> <<>>, scale |-> 0]]

\* where a request takes its AOI from: request.session_id or admin_region
AoiSources == {"session", "admin"}

\* what the collaborators of one process request do: succeed ("ok") or fail
\* at the named step
ProcessFates(aoi_source) ==
    (IF aoi_source = "session" THEN {"session_not_found", "no_geometry"}
     ELSE {"region_not_found", "count_error"})
    \cup {"area_error", "calculate_error", "tile_error", "ok"}

\* the get_tile_url calls process_rusle makes: soil loss and six factors
TileRequests == 1..7

\* _get_aoi_from_session(session_id): ValueError when the session directory
\* or its geometry files are missing; no engine request
GetAoiFromSession(fate) ==
    [raised |-> IF fate \in {"session_not_found", "no_geometry"}
                THEN "ValueError" ELSE "none",
     count_queries |-> 0]

\* the zero-feature test left out
GetAoiFromAdmin_NoCountCheck(fate) ==
    [raised |-> IF fate = "count_error" THEN "Exception" ELSE "none",
     count_queries |-> 1]

\* _get_aoi_from_admin(admin_region, admin_level): one fc.size().getInfo();
\* ValueError when the count is 0
GetAoiFromAdmin(fate) ==
    [raised |-> IF fate = "count_error" THEN "Exception"
                ELSE IF fate = "region_not_found" THEN "ValueError"
                ELSE "none",
     count_queries |-> 1]

\* the dictionary rebuilt around the new entry
CacheStore_Rebuild(cache, job_id, entry) == (job_id :> entry)

\* _results_cache[job_id] = {...}: one dictionary item assignment
CacheStore(cache, job_id, entry) == (job_id :> entry) @@ cache

\* the dictionary process_rusle stores: result, aoi, request, area_km2,
\* export_scale_used (result and aoi are the objects computed for this job)
CacheEntry(job_id, request, area_km2, adjusted_scale) ==
    [result |-> <<"result", job_id>>, aoi |-> <<"aoi", job_id>>,
     request |-> request, area_km2 |-> area_km2,
     export_scale_used |-> adjusted_scale]

\* the tile requests moved behind the cache write
ReachesCacheWrite_BeforeTiles(fate) ==
    fate \notin {"area_error", "calculate_error"}

\* the statements of the try block that precede the cache write all returned:
\* aoi.area().getInfo(), calculator.calculate and the seven get_tile_url calls
ReachesCacheWrite(fate) ==
    fate \notin {"area_error", "calculate_error", "tile_error"}

\* the check passing whatever the flag
IsGeeInitialized_Always == TRUE

\* gee_service.is_gee_initialized(): return _gee_initialized
IsGeeInitialized == gee_initialized

\* @router.post("/process") process_rusle(request).  k is the tile request
\* that fails when fate = "tile_error".
ProcessRusle(request, aoi_source, area_km2, fate, k) ==
    IF ~IsGeeInitialized
    THEN /\ outcome' = [NoOutcome EXCEPT !.op = "process", !.status = 503,
                                         !.export_scale = request.export_scale,
                                         !.admin_level = request.admin_level,
                                         !.aoi_source = aoi_source]
         /\ UNCHANGED <<gee_initialized, results_cache, job_counter>>
    ELSE /\ job_counter < MaxJobs
         /\ job_counter' = job_counter + 1
         /\ UNCHANGED gee_initialized
         /\ LET job_id == job_counter + 1
                aoi == IF aoi_source = "session" THEN GetAoiFromSession(fate)
                       ELSE GetAoiFromAdmin(fate)
                have_aoi == aoi.raised = "none"
                have_area == have_aoi /\ fate # "area_error"
                min_scale == GetMinimumScale(area_km2, request.admin_level)
                adjusted_scale == AdjustedScale(request.export_scale, min_scale)
                scale_was_adjusted ==
                    ScaleWasAdjusted(adjusted_scale, request.export_scale)
                calculated == have_area /\ fate # "calculate_error"
                tiles == IF ~calculated THEN 0
                         ELSE IF fate = "tile_error" THEN k ELSE 7
                cache_written == have_aoi /\ ReachesCacheWrite(fate)
                returned == have_aoi /\ fate \notin {"area_error",
                                "calculate_error", "tile_error"}
                trace == [NoOutcome EXCEPT
                              !.op = "process",
                              !.export_scale = request.export_scale,
                              !.admin_level = request.admin_level,
                              !.aoi_source = aoi_source,
                              !.fate = fate,
                              !.generated_job_id = job_id,
                              !.count_queries = aoi.count_queries,
                              !.area_queries = IF have_aoi THEN 1 ELSE 0,
                              !.scale_selected = have_area,
                              !.calculators = IF have_area THEN 1 ELSE 0,
                              !.calculate_calls = IF have_area THEN 1 ELSE 0,
                              !.tile_requests = tiles]
            IN  /\ results_cache' =
                       IF cache_written
                       THEN CacheStore(results_cache, job_id,
                                       CacheEntry(job_id, request, area_km2,
                                                  adjusted_scale))
                       ELSE results_cache
                /\ outcome' =
                       IF returned
                       THEN [trace EXCEPT
                                !.status = 200,
                                !.job_id = job_id,
                                !.area_km2 = area_km2,
                                !.export_scale_used = adjusted_scale,
                                !.scale_adjusted = scale_was_adjusted]
                       ELSE IF ~have_aoi /\ aoi.raised = "ValueError"
                       THEN [trace EXCEPT !.status = 400]
                       ELSE [trace EXCEPT !.status = 500]

\* what the engine does with a reduceRegion(...).getInfo(): return the
\* statistics, refuse because maxPixels would be exceeded, or fail otherwise
ReduceFates == {"ok", "too_many_pixels", "error"}

\* a second reduction at twice the scale after the pixel budget was exceeded
CalculatorGetStatistics_RetryCoarser(image, aoi, scale, fate) ==
    [raised |-> fate = "error",
     stats |-> IF fate = "error" THEN <<>> ELSE <<"stats", image, aoi>>,
     reductions |-> IF fate = "too_many_pixels" THEN 2 ELSE 1,
     scale |-> IF fate = "too_many_pixels" THEN 2 * scale ELSE scale]

\* RUSLECalculator.get_statistics(image, aoi, scale): one reduceRegion with
\* maxPixels=1e9 followed by getInfo(); an engine error propagates
CalculatorGetStatistics(image, aoi, scale, fate) ==
    [raised |-> fate # "ok",
     stats |-> IF fate = "ok" THEN <<"stats", image, aoi>> ELSE <<>>,
     reductions |-> 1,
     scale |-> scale]

\* @router.get("/process/{job_id}/statistics") get_statistics(job_id)
GetStatistics(job_id, fate) ==
    /\ UNCHANGED <<gee_initialized, results_cache, job_counter>>
    /\ IF job_id \notin DOMAIN results_cache
       THEN outcome' = [NoOutcome EXCEPT !.op = "statistics", !.status = 404,
                                         !.job_id = job_id]
       ELSE LET cached == results_cache[job_id]
                r == CalculatorGetStatistics(<<"soil_loss", job_id>>,
                                             <<"aoi", job_id>>,
                                             cached.request.export_scale, fate)
            IN outcome' = [NoOutcome EXCEPT
                   !.op = "statistics",
                   !.status = IF r.raised THEN 500 ELSE 200,
                   !.job_id = job_id,
                   !.fate = fate,
                   !.calculators = 1,
                   !.engine_call = "reduceRegion",
                   !.engine_scale = r.scale,
                   !.reductions = r.reductions,
                   !.statistics = ~r.raised /\ r.stats # <<>>]

\* what the engine does with Export.image.toDrive(...) and task.start()
ExportFates == {"ok", "create_error", "start_error"}

\* ids the engine gives to export tasks
RemoteTaskIds == {101, 102}

\* Query("RUSLE_exports") or a folder the caller names
Folders == {"RUSLE_exports", "my_folder"}

\* the task returned without start()
ExportToDrive_NotStarted(image, description, aoi, scale, folder, fate, id) ==
    [raised |-> fate = "create_error",
     tasks_created |-> IF fate = "create_error" THEN 0 ELSE 1,
     task_starts |-> 0,
     status_queries |-> 0,
     task |-> [image |-> image, description |-> description,
               folder |-> folder, region |-> aoi, scale |-> scale],
     id |-> IF fate = "create_error" THEN 0 ELSE id]

\* RUSLECalculator.export_to_drive(image, description, aoi, scale, folder):
\* Export.image.toDrive(...), task.start(), return task
ExportToDrive(image, description, aoi, scale, folder, fate, id) ==
    [raised |-> fate # "ok",
     tasks_created |-> IF fate = "create_error" THEN 0 ELSE 1,
     task_starts |-> IF fate = "create_error" THEN 0 ELSE 1,
     status_queries |-> 0,
     task |-> [image |-> image, description |-> description,
               folder |-> folder, region |-> aoi, scale |-> scale],
     id |-> IF fate = "ok" THEN id ELSE 0]

\* the task id put into the error detail as well
ExportTaskId_Always(r, id) == id

\* the task id the export handler returns: task.id in the response body, none
\* in the HTTPException of the except branch
ExportTaskId(r, id) == IF r.raised THEN 0 ELSE r.id

\* @router.post("/process/{job_id}/export") export_result(job_id, folder)
ExportResult(job_id, folder, fate, id) ==
    /\ UNCHANGED <<gee_initialized, results_cache, job_counter>>
    /\ IF job_id \notin DOMAIN results_cache
       THEN outcome' = [NoOutcome EXCEPT !.op = "export", !.status = 404,
                                         !.job_id = job_id, !.folder = folder]
       ELSE LET cached == results_cache[job_id]
                request == cached.request
                description == <<"RUSLE_soil_loss", job_id>>
                r == ExportToDrive(<<"soil_loss", job_id>>, description,
                                   <<"aoi", job_id>>, request.export_scale,
                                   folder, fate, id)
            IN outcome' = [NoOutcome EXCEPT
                   !.op = "export",
                   !.status = IF r.raised THEN 500 ELSE 200,
                   !.job_id = job_id,
                   !.fate = fate,
                   !.folder = folder,
                   !.calculators = 1,
                   !.engine_call = "toDrive",
                   !.engine_scale = r.task.scale,
                   !.tasks_created = r.tasks_created,
                   !.task_starts = r.task_starts,
                   !.status_queries = r.status_queries,
                   !.task = r.task,
                   !.task_id = ExportTaskId(r, id)]

\* what the engine does for a map request: fail at the centroid query, fail
\* at a tile request, or answer everything
MapFates == {"ok", "centroid_error", "tile_error"}

\* the 404 test left out: the lookup of the missing key raises outside the try
GetMapConfig_NoCheck(job_id, fate, k) ==
    /\ UNCHANGED <<gee_initialized, results_cache, job_counter>>
    /\ outcome' = [NoOutcome EXCEPT
           !.op = "visualize", !.job_id = job_id, !.fate = fate,
           !.status = IF job_id \in DOMAIN results_cache /\ fate = "ok"
                      THEN 200 ELSE 500,
           !.centroid_queries = IF job_id \in DOMAIN results_cache
                                THEN 1 ELSE 0,
           !.tile_requests = IF job_id \notin DOMAIN results_cache
                                \/ fate = "centroid_error" THEN 0
                             ELSE IF fate = "tile_error" THEN k ELSE 7]

\* visualize.get_map_config(job_id): the AOI centroid and seven tile URLs of
\* the cached result
GetMapConfig(job_id, fate, k) ==
    /\ UNCHANGED <<gee_initialized, results_cache, job_counter>>
    /\ IF job_id \notin DOMAIN results_cache
       THEN outcome' = [NoOutcome EXCEPT !.op = "visualize", !.status = 404,
                                         !.job_id = job_id]
       ELSE outcome' = [NoOutcome EXCEPT
                !.op = "visualize", !.job_id = job_id, !.fate = fate,
                !.status = IF fate = "ok" THEN 200 ELSE 500,
                !.centroid_queries = 1,
                !.tile_requests = IF fate = "centroid_error" THEN 0
                                  ELSE IF fate = "tile_error" THEN k ELSE 7]

\* visualize.get_folium_map(job_id, width, height): the same requests, the
\* layers added to a folium map
GetFoliumMap(job_id, fate, k) ==
    /\ UNCHANGED <<gee_initialized, results_cache, job_counter>>
    /\ IF job_id \notin DOMAIN results_cache
       THEN outcome' = [NoOutcome EXCEPT !.op = "folium", !.status = 404,
                                         !.job_id = job_id]
       ELSE outcome' = [NoOutcome EXCEPT
                !.op = "folium", !.job_id = job_id, !.fate = fate,
                !.status = IF fate = "ok" THEN 200 ELSE 500,
                !.centroid_queries = 1,
                !.tile_requests = IF fate = "centroid_error" THEN 0
                                  ELSE IF fate = "tile_error" THEN k ELSE 7]

DoProcess ==
    /\ \E request \in ProcessRequest, aoi_source \in AoiSources :
         \E fate \in ProcessFates(aoi_source) :
           \* the area is drawn where the run's outcome depends on it, the
           \* failing tile request where one fails
           \E area_km2 \in IF fate = "ok" THEN AoiAreas ELSE {500},
              k \in IF fate = "tile_error" THEN TileRequests ELSE {7} :
             ProcessRusle(request, aoi_source, area_km2, fate, k)
    /\ UNCHANGED <<concVars, hostVars, scaleVars, expVars, rasterVars>>

DoStatistics ==
    /\ \E job_id \in JobIds, fate \in ReduceFates : GetStatistics(job_id, fate)
    /\ UNCHANGED <<concVars, hostVars, scaleVars, expVars, rasterVars>>

DoExport ==
    /\ \E job_id \in JobIds, folder \in Folders, fate \in ExportFates :
         \E id \in IF fate = "create_error" THEN {0} ELSE RemoteTaskIds :
           ExportResult(job_id, folder, fate, id)
    /\ UNCHANGED <<concVars, hostVars, scaleVars, expVars, rasterVars>>

DoMapConfig ==
    /\ \E job_id \in JobIds, fate \in MapFates :
         \E k \in IF fate = "tile_error" THEN TileRequests ELSE {7} :
           GetMapConfig(job_id, fate, k)
    /\ UNCHANGED <<concVars, hostVars, scaleVars, expVars, rasterVars>>

DoFoliumMap ==
    /\ \E job_id \in JobIds, fate \in MapFates :
         \E k \in IF fate = "tile_error" THEN TileRequests ELSE {7} :
           GetFoliumMap(job_id, fate, k)
    /\ UNCHANGED <<concVars, hostVars, scaleVars, expVars, rasterVars>>

(***************************************************************************)
(* The handlers in flight together: every access to _results_cache is a    *)
(* step of its own, and the steps of different requests interleave freely  *)
(***************************************************************************)

MaxTasks == 2

\* the requests the server is working on at one time
TaskSlots == 1..MaxTasks

\* a ProcessRequest with the default export_scale and admin_level
DefaultRequest == [export_scale |-> 90, admin_level |-> 1]

NoEntry == CacheEntry(0, DefaultRequest, 0, 0)

IdleTask == [kind |-> "idle", pc |-> "idle", job_id |-> 0, status |-> 0,
             entry |-> NoEntry]

\* the handlers that look a job up: get_statistics, export_result,
\* get_map_config, get_folium_map
ReaderKinds == {"statistics", "export", "visualize", "folium"}

ConcIdle ==
    /\ tasks = [s \in TaskSlots |-> IdleTask]
    /\ written = <<>>

\* process_rusle up to job_id = str(uuid.uuid4())
BeginProcess ==
    /\ \E s \in TaskSlots :
         /\ tasks[s].pc = "idle"
         /\ IF ~gee_initialized
            THEN /\ tasks' = [tasks EXCEPT ![s] =
                        [IdleTask EXCEPT !.kind = "process", !.pc = "done",
                                         !.status = 503]]
                 /\ UNCHANGED job_counter
            ELSE /\ job_counter < MaxJobs
                 /\ job_counter' = job_counter + 1
                 /\ tasks' = [tasks EXCEPT ![s] =
                        [IdleTask EXCEPT !.kind = "process", !.pc = "compute",
                                         !.job_id = job_counter + 1]]
    /\ UNCHANGED <<gee_initialized, results_cache, outcome, written,
                   hostVars, scaleVars, expVars, rasterVars>>

\* process_rusle from the AOI lookup to the last tile request: the remote
\* work, which touches no shared state
ProcessCompute ==
    /\ \E s \in TaskSlots, fate \in {"ok", "value_error", "error"} :
         /\ tasks[s].pc = "compute"
         /\ LET request == DefaultRequest
                area_km2 == 500
                adjusted_scale ==
                    AdjustedScale(request.export_scale,
                                  GetMinimumScale(area_km2, request.admin_level))
            IN tasks' = [tasks EXCEPT ![s] =
                   IF fate = "ok"
                   THEN [@ EXCEPT !.pc = "store",
                                  !.entry = CacheEntry(tasks[s].job_id, request,
                                                area_km2, adjusted_scale)]
                   ELSE [@ EXCEPT !.pc = "done",
                                  !.status = IF fate = "value_error"
                                             THEN 400 ELSE 500]]
    /\ UNCHANGED <<routerVars, written, hostVars, scaleVars, expVars, rasterVars>>

\* process_rusle: _results_cache[job_id] = {...}
ProcessStore ==
    /\ \E s \in TaskSlots :
         /\ tasks[s].pc = "store"
         /\ results_cache' =
                CacheStore(results_cache, tasks[s].job_id, tasks[s].entry)
         /\ written' = (tasks[s].job_id :> tasks[s].entry) @@ written
         /\ tasks' = [tasks EXCEPT ![s] = [@ EXCEPT !.pc = "done",
                                                    !.status = 200]]
    /\ UNCHANGED <<gee_initialized, job_counter, outcome,
                   hostVars, scaleVars, expVars, rasterVars>>

\* a statistics, export, map or folium request arrives for some job id
BeginRead ==
    /\ \E s \in TaskSlots, kind \in ReaderKinds, job_id \in JobIds :
         /\ tasks[s].pc = "idle"
         /\ tasks' = [tasks EXCEPT ![s] =
                [IdleTask EXCEPT !.kind = kind, !.pc = "check",
                                 !.job_id = job_id]]
    /\ UNCHANGED <<routerVars, written, hostVars, scaleVars, expVars, rasterVars>>

\* if job_id not in _results_cache: raise HTTPException(status_code=404)
ReadCheck ==
    /\ \E s \in TaskSlots :
         /\ tasks[s].pc = "check"
         /\ tasks' = [tasks EXCEPT ![s] =
                IF tasks[s].job_id \in DOMAIN results_cache
                THEN [@ EXCEPT !.pc = "lookup"]
                ELSE [@ EXCEPT !.pc = "done", !.status = 404]]
    /\ UNCHANGED <<routerVars, written, hostVars, scaleVars, expVars, rasterVars>>

\* cached = _results_cache[job_id]; a missing key raises KeyError
ReadLookup ==
    /\ \E s \in TaskSlots :
         /\ tasks[s].pc = "lookup"
         /\ tasks' = [tasks EXCEPT ![s] =
                IF tasks[s].job_id \in DOMAIN results_cache
                THEN [@ EXCEPT !.pc = "engine",
                               !.entry = results_cache[tasks[s].job_id]]
                ELSE [@ EXCEPT !.pc = "done", !.status = 500]]
    /\ UNCHANGED <<routerVars, written, hostVars, scaleVars, expVars, rasterVars>>

\* the remote call made with the entry read, and the response
ReadEngine ==
    /\ \E s \in TaskSlots, engine_ok \in BOOLEAN :
         /\ tasks[s].pc = "engine"
         /\ tasks' = [tasks EXCEPT ![s] =
                [@ EXCEPT !.pc = "done",
                          !.status = IF engine_ok THEN 200 ELSE 500]]
    /\ UNCHANGED <<routerVars, written, hostVars, scaleVars, expVars, rasterVars>>

\* the response is sent and the request is over
Respond ==
    /\ \E s \in TaskSlots :
         /\ tasks[s].pc = "done"
         /\ tasks' = [tasks EXCEPT ![s] = IdleTask]
    /\ UNCHANGED <<routerVars, written, hostVars, scaleVars, expVars, rasterVars>>

(***************************************************************************)
(* The selector as a pure function: inputs drawn, one evaluation per step  *)
(***************************************************************************)

\* requested scales, areas around every threshold (km2) and admin levels,
\* the unknown levels -1 and 3 included
SelScales == {10, 90, 500}
SelAreas == {-1, 0, 1, 500, 1000, 1001, 10000, 10001, 100000, 100001,
             500000, 500001, 600000}
SelLevels == -1..3

NoSel ==
    [done |-> FALSE, export_scale |-> 0, area_km2 |-> 0, admin_level |-> 0,
     level_min |-> 0, area_min |-> 0, min_scale |-> 0,
     adjusted_scale |-> 0, scale_was_adjusted |-> FALSE]

\* lines 165-169 of process_rusle applied to (export_scale, area_km2, admin_level)
SelectScale(export_scale, area_km2, admin_level) ==
    LET min_scale == GetMinimumScale(area_km2, admin_level)
        adjusted_scale == AdjustedScale(export_scale, min_scale)
    IN [done |-> TRUE, export_scale |-> export_scale, area_km2 |-> area_km2,
        admin_level |-> admin_level,
        level_min |-> LevelMin(admin_level),
        area_min |-> AreaMin(area_km2),
        min_scale |-> min_scale,
        adjusted_scale |-> adjusted_scale,
        scale_was_adjusted |-> ScaleWasAdjusted(adjusted_scale, export_scale)]

\* a first evaluation on freshly drawn inputs
Select ==
    /\ \E export_scale \in SelScales, area_km2 \in SelAreas, admin_level \in SelLevels :
           sel' = SelectScale(export_scale, area_km2, admin_level)
    /\ selPrev' = NoSel
    /\ UNCHANGED <<routerVars, concVars, hostVars, expVars, rasterVars>>

\* a second evaluation: same requested scale and admin level, an area at
\* least as large as the one before
SelectLarger ==
    /\ sel.done
    /\ \E area_km2 \in SelAreas :
           /\ area_km2 >= sel.area_km2
           /\ sel' = SelectScale(sel.export_scale, area_km2, sel.admin_level)
    /\ selPrev' = sel
    /\ UNCHANGED <<routerVars, concVars, hostVars, expVars, rasterVars>>

(***************************************************************************)
(* Remote raster engine primitives, at one sampled pixel.                  *)
(*                                                                         *)
(* Every operator the builders apply (arithmetic, comparison, where,       *)
(* unmask, clip, expression) acts pixel by pixel, so a layer is modelled   *)
(* by what it holds at one arbitrary pixel, and the AOI by whether that    *)
(* pixel lies inside it.  A pixel of a layer is [masked, fp, v]:           *)
(*   masked  the pixel carries no value                                    *)
(*   fp      the pixel lies inside the layer's footprint; clip() narrows   *)
(*           the footprint to the geometry and unmask() is called without  *)
(*           sameFootprint, whose default keeps the input's footprint      *)
(*   v       an expression term [op, args, num]: real arithmetic is kept   *)
(*           symbolic (the lazy expression graph), numbers are fixed       *)
(*           point in units of 1/10000                                     *)
(* Datasets and custom images are taken to cover the sampled pixel: there  *)
(* a missing value is a masked pixel inside the footprint.  Band names     *)
(* (rename) carry no value and are not modelled.                           *)
(***************************************************************************)

Fx(n) == n * 10000

NoTerm == [op |-> "none", args |-> <<>>, num |-> 0]
Num(n) == [op |-> "num", args |-> <<>>, num |-> n]
Data(name, n) == [op |-> name, args |-> <<>>, num |-> n]
App(op, args) == [op |-> op, args |-> args, num |-> 0]

\* a pixel with a value, a masked pixel the layer covers, a pixel outside
\* the layer's footprint
Px(v) == [masked |-> FALSE, fp |-> TRUE, v |-> v]
MaskedPx == [masked |-> TRUE, fp |-> TRUE, v |-> NoTerm]
OutsidePx == [masked |-> TRUE, fp |-> FALSE, v |-> NoTerm]

\* the pixel of a result that has no value: covered only if all operands are
NoValue(covered) == IF covered THEN MaskedPx ELSE OutsidePx

\* ee.Image(constant): unmasked everywhere, unbounded
Image(c) == Px(Num(c))

\* a.op(b): masked wherever either operand is masked
Binary(op, a, b) ==
    IF a.masked \/ b.masked THEN NoValue(a.fp /\ b.fp)
    ELSE Px(App(op, <<a.v, b.v>>))

\* a.op(): exp, tan
Unary(op, a) == IF a.masked THEN a ELSE Px(App(op, <<a.v>>))

\* image.clip(aoi): masks every pixel outside the geometry, which becomes
\* the footprint
Clip(a, inside) == IF inside THEN a ELSE OutsidePx

\* image.unmask(c): the constant replaces the value wherever the mask is
\* zero, within the footprint of the input (sameFootprint defaults to true)
Unmask(a, c) == IF a.masked /\ a.fp THEN Image(c) ELSE a

\* image.gt(c), image.lte(c) on a numeric layer: 1 or 0, masked where masked
Gt(a, c) == IF a.masked THEN a ELSE Image(IF a.v.num > c THEN 1 ELSE 0)
Lte(a, c) == IF a.masked THEN a ELSE Image(IF a.v.num <= c THEN 1 ELSE 0)

\* a.And(b)
And(a, b) ==
    IF a.masked \/ b.masked THEN NoValue(a.fp /\ b.fp)
    ELSE Image(IF a.v.num # 0 /\ b.v.num # 0 THEN 1 ELSE 0)

\* input.where(test, value): value where test is nonzero; the input value is
\* used where test is masked; a masked input stays masked
Where(input, test, value) ==
    IF input.masked THEN input
    ELSE IF test.masked THEN input
    ELSE IF test.v.num # 0 THEN Image(value) ELSE input

(***************************************************************************)
(* Factor builders (app/services/rusle_calculator.py)                      *)
(***************************************************************************)

\* silt taken as 100 - clay
LoadSoilData_SiltWithoutSand(organic_carbon_src, clay_src, sand_src, inside) ==
    LET clay == Clip(clay_src, inside)
        sand == Clip(sand_src, inside)
    IN [organic_carbon |-> Clip(organic_carbon_src, inside),
        clay |-> clay,
        sand |-> sand,
        silt |-> Clip(Binary("subtract", Image(Fx(100)), clay), inside)]

\* gee_service.load_soil_data(aoi): (organic_carbon, clay, sand, silt), each
\* clipped; silt is the remainder 100 - clay - sand
LoadSoilData(organic_carbon_src, clay_src, sand_src, inside) ==
    LET clay == Clip(clay_src, inside)
        sand == Clip(sand_src, inside)
    IN [organic_carbon |-> Clip(organic_carbon_src, inside),
        clay |-> clay,
        sand |-> sand,
        silt |-> Clip(Binary("subtract",
                             Binary("subtract", Image(Fx(100)), clay), sand),
                      inside)]

\* the Williams (1995) product f_csand * f_cl_si * f_orgc * f_hisand
KProduct(soil) ==
    LET organic_carbon == soil.organic_carbon
        clay == soil.clay
        sand == soil.sand
        silt == soil.silt
        f_csand ==
            Binary("add", Image(2000),
                Binary("multiply", Image(3000),
                    Unary("exp",
                        Binary("multiply", Image(-2560),
                            Binary("subtract",
                                Binary("divide", silt, Image(Fx(100))),
                                Image(Fx(1)))))))
        f_cl_si ==
            Binary("pow", Binary("divide", silt, Binary("add", clay, silt)),
                   Image(3000))
        f_orgc ==
            Binary("subtract", Image(Fx(1)),
                Binary("divide",
                    Binary("multiply", Image(2500), organic_carbon),
                    Binary("add", organic_carbon,
                        Unary("exp",
                            Binary("subtract", Image(37200),
                                Binary("multiply", Image(29500),
                                       organic_carbon))))))
        sand_fraction ==
            Binary("subtract", Image(Fx(1)),
                   Binary("divide", sand, Image(Fx(100))))
        f_hisand ==
            Binary("subtract", Image(Fx(1)),
                Binary("divide",
                    Binary("multiply", Image(7000), sand_fraction),
                    Binary("add", sand_fraction,
                        Unary("exp",
                            Binary("add", Image(-55100),
                                Binary("multiply", Image(229000),
                                       sand_fraction))))))
    IN Binary("multiply",
           Binary("multiply", Binary("multiply", f_csand, f_cl_si), f_orgc),
           f_hisand)

\* mutant: the gap-fill step is left out
CalculateKFactor_NoFill(organic_carbon_src, clay_src, sand_src, inside) ==
    Clip(KProduct(LoadSoilData(organic_carbon_src, clay_src, sand_src, inside)),
         inside)

\* _calculate_k_factor(aoi): product, unmask(0.04), clip(aoi)
CalculateKFactor(organic_carbon_src, clay_src, sand_src, inside) ==
    Clip(Unmask(KProduct(LoadSoilData(organic_carbon_src, clay_src, sand_src,
                                      inside)),
                400),
         inside)

\* pcp_sum.pow(1.610).multiply(0.0483)
RProduct(pcp_sum) ==
    Binary("multiply", Binary("pow", pcp_sum, Image(16100)), Image(483))

\* mutant: the gap-fill is given the unbounded footprint (sameFootprint=False)
CalculateRFactor_FillAnywhere(pcp_sum_src, inside) ==
    LET r == RProduct(Clip(pcp_sum_src, inside))
    IN IF r.masked THEN Image(0) ELSE r

\* _calculate_r_factor(aoi, date_from, date_to): the precipitation sum over
\* the window is clipped, then R is computed, then unmask(0)
CalculateRFactor(pcp_sum_src, inside) ==
    Unmask(RProduct(Clip(pcp_sum_src, inside)), 0)

\* slope values ee.Terrain.slope returns at the sampled pixel (degrees)
SlopeDegrees == {0, 1, 2, 3, 45, 46}

\* tan(deg / 180 * pi) * 100 at those degrees, in 1/10000 percent
TanPercent ==
    (0 :> 0) @@ (1 :> 17455) @@ (2 :> 34921) @@ (3 :> 52408) @@
    (45 :> 1000000) @@ (46 :> 1035530)

\* slope_deg.divide(180).multiply(math.pi).tan().multiply(100)
SlopePercent(slope_deg) ==
    IF slope_deg.masked THEN slope_deg ELSE Image(TanPercent[slope_deg.v.num])

\* mutant: the second range starts at 0.5, overlapping the first
M_RANGES_Overlap ==
    << <<-10000, 10000, 2000>>, <<5000, 30000, 3000>>,
       <<30000, 45000, 4000>>, <<45000, 1000000, 5000>> >>

\* the four .where(slope_perc.gt(lo).And(slope_perc.lte(hi)), m) replacements
\* of m_exponent, in source order: (lo, hi, m)
M_RANGES ==
    << <<-10000, 10000, 2000>>, <<10000, 30000, 3000>>,
       <<30000, 45000, 4000>>, <<45000, 1000000, 5000>> >>

\* one replacement: input.where(slope_perc.gt(lo).And(slope_perc.lte(hi)), m)
WhereRange(input, slope_perc, i) ==
    Where(input,
          And(Gt(slope_perc, M_RANGES[i][1]), Lte(slope_perc, M_RANGES[i][2])),
          M_RANGES[i][3])

\* the replacements applied one after the other in the given order
RECURSIVE ApplyWheres(_, _, _)
ApplyWheres(input, slope_perc, order) ==
    IF order = <<>> THEN input
    ELSE ApplyWheres(WhereRange(input, slope_perc, Head(order)),
                     slope_perc, Tail(order))

\* m_exponent = ee.Image(1).where(...).where(...).where(...).where(...)
MExponent(slope_perc) == ApplyWheres(Image(Fx(1)), slope_perc, <<1, 2, 3, 4>>)

\* l_factor: ee.Image(pixel_size).divide(22.13).pow(m_exponent), unmask(1), clip
LFactor(slope_perc, pixel_size, inside) ==
    Clip(Unmask(Binary("pow",
                       Binary("divide", Image(Fx(pixel_size)), Image(221300)),
                       MExponent(slope_perc)),
                Fx(1)),
         inside)

\* (0.043 * slope^2 + 0.30 * slope + 0.43) / 6.613
SProduct(slope_perc) ==
    Binary("divide",
        Binary("add",
            Binary("add",
                Binary("multiply", Binary("pow", slope_perc, Image(Fx(2))),
                       Image(430)),
                Binary("multiply", slope_perc, Image(3000))),
            Image(4300)),
        Image(66130))

\* s_factor: unmask(0.065), clip
SFactor(slope_perc, inside) == Clip(Unmask(SProduct(slope_perc), 650), inside)

\* _calculate_ls_factors(aoi, dem_source, pixel_size): slope_deg is
\* ee.Terrain.slope(dem).clip(aoi)
CalculateLSFactors(slope_src, pixel_size, inside) ==
    LET slope_perc == SlopePercent(Clip(slope_src, inside))
    IN [l_factor |-> LFactor(slope_perc, pixel_size, inside),
        s_factor |-> SFactor(slope_perc, inside)]

\* 0.431 - 0.805 * NDVI, NDVI = normalizedDifference(['SR_B5', 'SR_B4'])
CProduct(sr_b5, sr_b4) ==
    Binary("subtract", Image(4310),
           Binary("multiply", Binary("normalizedDifference", sr_b5, sr_b4),
                  Image(8050)))

\* _calculate_c_factor(aoi, date_from, date_to): the median composite is
\* clipped, then C is computed, unmask(0.15), clip
CalculateCFactor(sr_b5_src, sr_b4_src, inside) ==
    Clip(Unmask(CProduct(Clip(sr_b5_src, inside), Clip(sr_b4_src, inside)),
                1500),
         inside)

\* the table with the cropland value entered under key 10 a second time
P_FACTOR_VALUES_CroplandShifted ==
    << <<1, 8000>>, <<2, 8000>>, <<3, 8000>>, <<4, 8000>>, <<5, 8000>>,
       <<6, 8000>>, <<7, 8000>>, <<8, 8000>>, <<9, 8000>>, <<10, 8000>>,
       <<11, 10000>>, <<10, 5000>>, <<13, 10000>>, <<14, 5000>>,
       <<15, 10000>>, <<16, 10000>>, <<17, 10000>> >>

\* P_FACTOR_VALUES in dictionary order: (MODIS class, P value)
P_FACTOR_VALUES ==
    << <<1, 8000>>, <<2, 8000>>, <<3, 8000>>, <<4, 8000>>, <<5, 8000>>,
       <<6, 8000>>, <<7, 8000>>, <<8, 8000>>, <<9, 8000>>, <<10, 8000>>,
       <<11, 10000>>, <<12, 5000>>, <<13, 10000>>, <<14, 5000>>,
       <<15, 10000>>, <<16, 10000>>, <<17, 10000>> >>

\* the chained conditional "(b('lulc') == c1) ? v1 : (b('lulc') == c2) ? v2
\* : ... : fallback", evaluated from position i on
RECURSIVE ChainedConditional(_, _, _, _)
ChainedConditional(p_values, lc, fallback, i) ==
    IF i > Len(p_values) THEN fallback
    ELSE IF lc = p_values[i][1] THEN p_values[i][2]
         ELSE ChainedConditional(p_values, lc, fallback, i + 1)

\* lulc.expression(expression) with the application's fallback ": 1.0"
PExpression(lulc) ==
    IF lulc.masked THEN lulc
    ELSE Image(ChainedConditional(P_FACTOR_VALUES, lulc.v.num, Fx(1), 1))

\* _calculate_p_factor(aoi): newest MODIS land cover, clipped; lookup;
\* unmask(1.0), clip
CalculatePFactor(modis_lc_src, inside) ==
    Clip(Unmask(PExpression(Clip(modis_lc_src, inside)), Fx(1)), inside)

\* rusle_utils.P_FACTOR_VALUES, the script's own copy of the table
P_FACTOR_VALUES_script ==
    << <<1, 8000>>, <<2, 8000>>, <<3, 8000>>, <<4, 8000>>, <<5, 8000>>,
       <<6, 8000>>, <<7, 8000>>, <<8, 8000>>, <<9, 8000>>, <<10, 8000>>,
       <<11, 10000>>, <<12, 5000>>, <<13, 10000>>, <<14, 5000>>,
       <<15, 10000>>, <<16, 10000>>, <<17, 10000>> >>

\* rusle_utils.calculate_p_factor(modis_lc, aoi, p_values=None): clip, the
\* chained conditional with the fallback ": 9999", clip; no gap-fill
calculate_p_factor(modis_lc, inside) ==
    LET p_values == P_FACTOR_VALUES_script
        lulc == Clip(modis_lc, inside)
        p_factor == IF lulc.masked THEN lulc
                    ELSE Image(ChainedConditional(p_values, lulc.v.num,
                                                  Fx(9999), 1))
    IN  Clip(p_factor, inside)

\* LC_Type1 is an unsigned 8-bit band: classes 1..17, 255 = unclassified
LandCoverCodes == 0..255

NoPf == [done |-> FALSE, lc |-> MaskedPx, inside |-> FALSE,
         app |-> MaskedPx, script |-> MaskedPx]

\* both P-factor builders applied to the same land-cover pixel
EvalPFactor ==
    /\ \E lc \in {MaskedPx} \cup {Px(Num(c)) : c \in LandCoverCodes},
          inside \in BOOLEAN :
         pf' = [done |-> TRUE, lc |-> lc, inside |-> inside,
                app |-> CalculatePFactor(lc, inside),
                script |-> calculate_p_factor(lc, inside)]
    /\ UNCHANGED <<mx, tile, win, runs, routerVars, concVars, hostVars, scaleVars, rasterVars>>

(***************************************************************************)
(* The date window: ProcessRequest validation and the R-factor collection  *)
(***************************************************************************)

\* a date string: one that strptime('%Y-%m-%d') parses (day = its position in
\* the calendar) or one it rejects
MalformedDate == [wellformed |-> FALSE, day |-> 0]
DateStrings == {MalformedDate} \cup {[wellformed |-> TRUE, day |-> d] : d \in 1..5}

\* @field_validator('date_from', 'date_to') validate_date(v): the format only
ValidateDate(v) == v.wellformed

\* ProcessRequest(...): both dates pass validate_date, and model_post_init
\* finds a session_id or an admin_region
RequestAccepted(date_from, date_to, has_session, has_region) ==
    /\ ValidateDate(date_from) /\ ValidateDate(date_to)
    /\ (has_session \/ has_region)

\* .filterDate(date_from, date_to) on the daily collection: the number of
\* images from date_from (inclusive) to date_to (exclusive)
FilterDate(date_from, date_to) ==
    IF date_to.day > date_from.day THEN date_to.day - date_from.day ELSE 0

\* an image without bands: what reducing an empty collection returns
NoBands == [bands |-> 0, px |-> OutsidePx]

\* precipitation.select(...).filterDate(date_from, date_to).sum()
CollectionSum(selected, daily) ==
    IF selected = 0 THEN NoBands
    ELSE [bands |-> 1,
          px |-> IF daily.masked THEN daily
                 ELSE Px(Data("precipitation_sum", selected * daily.v.num))]

\* _calculate_r_factor(aoi, date_from, date_to): the per-pixel formula on the
\* summed band; an image without bands keeps none through clip, pow,
\* multiply and unmask
RFactorOverWindow(date_from, date_to, daily, inside) ==
    LET pcp_sum == CollectionSum(FilterDate(date_from, date_to), daily)
    IN  IF pcp_sum.bands = 0 THEN NoBands
        ELSE [bands |-> 1, px |-> CalculateRFactor(pcp_sum.px, inside)]

\* daily CHIRPS precipitation at the pixel
DailySrc == {MaskedPx, Px(Data("precipitation", 4))}

NoWin == [done |-> FALSE, date_from |-> MalformedDate, date_to |-> MalformedDate,
          has_session |-> FALSE, has_region |-> FALSE, accepted |-> FALSE,
          built |-> FALSE, inside |-> FALSE,
          window |-> <<MalformedDate, MalformedDate>>, r |-> NoBands]

\* one request: validation, then process_rusle hands request.date_from and
\* request.date_to to RUSLEInput and calculate hands them to the builders
SubmitWindow ==
    /\ \E date_from \in DateStrings, date_to \in DateStrings,
          has_session \in BOOLEAN, has_region \in BOOLEAN,
          daily \in DailySrc, inside \in BOOLEAN :
         LET accepted == RequestAccepted(date_from, date_to,
                                         has_session, has_region)
         IN win' = [done |-> TRUE, date_from |-> date_from,
                    date_to |-> date_to, has_session |-> has_session,
                    has_region |-> has_region, accepted |-> accepted,
                    built |-> accepted, inside |-> inside,
                    window |-> IF accepted THEN <<date_from, date_to>>
                               ELSE <<MalformedDate, MalformedDate>>,
                    r |-> IF accepted
                          THEN RFactorOverWindow(date_from, date_to, daily,
                                                 inside)
                          ELSE NoBands]
    /\ UNCHANGED <<mx, pf, tile, runs, routerVars, concVars, hostVars,
                   scaleVars, rasterVars>>

(***************************************************************************)
(* RUSLECalculator.get_tile_url                                            *)
(***************************************************************************)

\* the layers of a RUSLEResult a tile URL is requested for
TileLayers == {"soil_loss", "r_factor", "k_factor", "l_factor", "s_factor",
               "c_factor", "p_factor"}

\* an image as the tile service sees it: the layer in its own projection
NativeImage(layer) == [layer |-> layer, crs |-> "native", scale |-> 0]

\* the scale argument: None (the default) or an int
NoneScale == [given |-> FALSE, v |-> 0]
IntScale(n) == [given |-> TRUE, v |-> n]
TileScales == {NoneScale} \cup {IntScale(n) : n \in -1..150}

\* Python truth value of the argument: None and 0 are false
Truthy(scale) == scale.given /\ scale.v # 0

\* image.reproject(crs='EPSG:4326', scale=scale)
Reproject(image, crs, scale) == [image EXCEPT !.crs = crs, !.scale = scale]

\* reproject at the threshold itself
GetTileUrl_AtThreshold(image, vis_params, scale) ==
    LET img == IF Truthy(scale) /\ scale.v >= 100
               THEN Reproject(image, "EPSG:4326", scale.v) ELSE image
    IN  [map_id_image |-> img, vis_params |-> vis_params, map_id_calls |-> 1]

\* get_tile_url(image, vis_params, scale=None): one getMapId request on the
\* image, reprojected first when "scale and scale > 100"
GetTileUrl(image, vis_params, scale) ==
    LET img == IF Truthy(scale) /\ scale.v > 100
               THEN Reproject(image, "EPSG:4326", scale.v) ELSE image
    IN  [map_id_image |-> img, vis_params |-> vis_params, map_id_calls |-> 1]

NoTile == [done |-> FALSE, layer |-> "none", scale |-> NoneScale,
           url |-> [map_id_image |-> NativeImage("none"),
                    vis_params |-> "none", map_id_calls |-> 0]]

CallGetTileUrl ==
    /\ \E layer \in TileLayers, scale \in TileScales :
         tile' = [done |-> TRUE, layer |-> layer, scale |-> scale,
                  url |-> GetTileUrl(NativeImage(layer),
                                     IF layer = "soil_loss" THEN "soil_loss_vis"
                                     ELSE "factor_vis", scale)]
    /\ UNCHANGED <<mx, pf, win, runs, routerVars, concVars, hostVars, scaleVars, rasterVars>>

(***************************************************************************)
(* RUSLECalculator.calculate(inputs), one builder call per step            *)
(***************************************************************************)

\* RUSLEInput.pixel_size (default 30.0), in metres
PixelSizes == {10, 30}

\* mutant: the pixel size is not squared
PixelAreaHa_NotSquared(pixel_size) == Fx(pixel_size) \div 10000

\* pixel_area_ha = (inputs.pixel_size ** 2) / 10000
PixelAreaHa(pixel_size) == Fx(pixel_size * pixel_size) \div 10000

\* data the engine may hold at the sampled pixel, masked or present
OrganicCarbonSrc == {MaskedPx, Px(Data("organic_carbon", 2))}
ClaySrc == {MaskedPx, Px(Data("clay", 30))}
SandSrc == {MaskedPx, Px(Data("sand", 30)), Px(Data("sand", 60))}
PcpSumSrc == {MaskedPx, Px(Data("precipitation_sum", 1200))}
SlopeSrc == {MaskedPx} \cup {Px(Num(d)) : d \in SlopeDegrees}
BandSrc(name) == {MaskedPx, Px(Data(name, 1))}
ModisSrc == {MaskedPx} \cup {Px(Num(c)) : c \in {1, 12, 17, 255}}

\* an optional custom factor image of RUSLEInput: None or an arbitrary image
NoneImage == [given |-> FALSE, px |-> MaskedPx]
CustomImages(name) ==
    {NoneImage} \cup {[given |-> TRUE, px |-> q] : q \in {MaskedPx, Px(Data(name, 1))}}

RUSLEInputs ==
    [custom_k_factor : CustomImages("custom_k"),
     custom_r_factor : CustomImages("custom_r"),
     custom_ls_factor : CustomImages("custom_ls"),
     custom_c_factor : CustomImages("custom_c"),
     custom_p_factor : CustomImages("custom_p"),
     pixel_size : PixelSizes]

DefaultInputs ==
    [custom_k_factor |-> NoneImage, custom_r_factor |-> NoneImage,
     custom_ls_factor |-> NoneImage, custom_c_factor |-> NoneImage,
     custom_p_factor |-> NoneImage, pixel_size |-> 30]

NoSrc ==
    [loaded |-> "none", organic_carbon |-> MaskedPx, clay |-> MaskedPx,
     sand |-> MaskedPx, pcp_sum |-> MaskedPx, slope_deg |-> MaskedPx,
     sr_b5 |-> MaskedPx, sr_b4 |-> MaskedPx, modis_lc |-> MaskedPx]

NoLayers ==
    [k_factor |-> MaskedPx, r_factor |-> MaskedPx, l_factor |-> MaskedPx,
     s_factor |-> MaskedPx, c_factor |-> MaskedPx, p_factor |-> MaskedPx]

NoResult ==
    [soil_loss |-> MaskedPx, r_factor |-> MaskedPx, k_factor |-> MaskedPx,
     l_factor |-> MaskedPx, s_factor |-> MaskedPx, c_factor |-> MaskedPx,
     p_factor |-> MaskedPx]

\* rusle_utils.calculate_rusle(r, k, l, s, c, p, pixel_area_ha): the same
\* chain of multiply calls, without post-processing
CalculateRusle(f, pixel_area_ha) ==
    Binary("multiply",
      Binary("multiply",
        Binary("multiply",
          Binary("multiply",
            Binary("multiply",
              Binary("multiply", f.r_factor, f.k_factor),
              f.l_factor),
            f.s_factor),
          f.c_factor),
        f.p_factor),
      Image(pixel_area_ha))

\* soil_loss: the chain of multiply calls, unmask(0), clip(aoi)
SoilLoss(f, pixel_size, inside) ==
    Clip(Unmask(
            Binary("multiply",
              Binary("multiply",
                Binary("multiply",
                  Binary("multiply",
                    Binary("multiply",
                      Binary("multiply", f.r_factor, f.k_factor),
                      f.l_factor),
                    f.s_factor),
                  f.c_factor),
                f.p_factor),
              Image(PixelAreaHa(pixel_size))),
            0),
         inside)

\* the re-clip of one factor before it is returned: factor.clip(aoi)
ReclipFactor(factor, inside) == Clip(factor, inside)

\* k_factor = inputs.custom_k_factor or self._calculate_k_factor(aoi)
StepK ==
    /\ pc = "k"
    /\ pc' = "r"
    /\ IF inputs.custom_k_factor.given
       THEN /\ src' = NoSrc
            /\ layers' = [layers EXCEPT !.k_factor = inputs.custom_k_factor.px]
       ELSE \E oc \in OrganicCarbonSrc, cl \in ClaySrc, sa \in SandSrc :
            /\ src' = [NoSrc EXCEPT !.loaded = "soil", !.organic_carbon = oc,
                                    !.clay = cl, !.sand = sa]
            /\ layers' = [layers EXCEPT
                   !.k_factor = CalculateKFactor(oc, cl, sa, in_aoi)]
    /\ UNCHANGED <<in_aoi, inputs, result, routerVars, concVars, hostVars, scaleVars, expVars>>

\* r_factor = inputs.custom_r_factor or self._calculate_r_factor(...)
StepR ==
    /\ pc = "r"
    /\ pc' = "ls"
    /\ IF inputs.custom_r_factor.given
       THEN /\ src' = NoSrc
            /\ layers' = [layers EXCEPT !.r_factor = inputs.custom_r_factor.px]
       ELSE \E pcp \in PcpSumSrc :
            /\ src' = [NoSrc EXCEPT !.loaded = "precipitation", !.pcp_sum = pcp]
            /\ layers' = [layers EXCEPT !.r_factor = CalculateRFactor(pcp, in_aoi)]
    /\ UNCHANGED <<in_aoi, inputs, result, routerVars, concVars, hostVars, scaleVars, expVars>>

\* l_factor, s_factor = self._calculate_ls_factors(...); a custom LS image
\* then replaces L, and S becomes ee.Image(1)
StepLS ==
    /\ pc = "ls"
    /\ pc' = "c"
    /\ \E slope \in SlopeSrc :
         LET ls == CalculateLSFactors(slope, inputs.pixel_size, in_aoi)
         IN /\ src' = [NoSrc EXCEPT !.loaded = "dem", !.slope_deg = slope]
            /\ layers' =
                 IF inputs.custom_ls_factor.given
                 THEN [layers EXCEPT !.l_factor = inputs.custom_ls_factor.px,
                                     !.s_factor = Image(Fx(1))]
                 ELSE [layers EXCEPT !.l_factor = ls.l_factor,
                                     !.s_factor = ls.s_factor]
    /\ UNCHANGED <<in_aoi, inputs, result, routerVars, concVars, hostVars, scaleVars, expVars>>

\* c_factor = inputs.custom_c_factor or self._calculate_c_factor(...)
StepC ==
    /\ pc = "c"
    /\ pc' = "p"
    /\ IF inputs.custom_c_factor.given
       THEN /\ src' = NoSrc
            /\ layers' = [layers EXCEPT !.c_factor = inputs.custom_c_factor.px]
       ELSE \E b5 \in BandSrc("SR_B5"), b4 \in BandSrc("SR_B4") :
            /\ src' = [NoSrc EXCEPT !.loaded = "landsat", !.sr_b5 = b5, !.sr_b4 = b4]
            /\ layers' = [layers EXCEPT !.c_factor = CalculateCFactor(b5, b4, in_aoi)]
    /\ UNCHANGED <<in_aoi, inputs, result, routerVars, concVars, hostVars, scaleVars, expVars>>

\* p_factor = inputs.custom_p_factor or self._calculate_p_factor(aoi)
StepP ==
    /\ pc = "p"
    /\ pc' = "combine"
    /\ IF inputs.custom_p_factor.given
       THEN /\ src' = NoSrc
            /\ layers' = [layers EXCEPT !.p_factor = inputs.custom_p_factor.px]
       ELSE \E lc \in ModisSrc :
            /\ src' = [NoSrc EXCEPT !.loaded = "modis", !.modis_lc = lc]
            /\ layers' = [layers EXCEPT !.p_factor = CalculatePFactor(lc, in_aoi)]
    /\ UNCHANGED <<in_aoi, inputs, result, routerVars, concVars, hostVars, scaleVars, expVars>>

\* soil_loss, the re-clip of the six factors, and the returned RUSLEResult
StepCombine ==
    /\ pc = "combine"
    /\ pc' = "done"
    /\ result' =
         [soil_loss |-> SoilLoss(layers, inputs.pixel_size, in_aoi),
          r_factor |-> ReclipFactor(layers.r_factor, in_aoi),
          k_factor |-> ReclipFactor(layers.k_factor, in_aoi),
          l_factor |-> ReclipFactor(layers.l_factor, in_aoi),
          s_factor |-> ReclipFactor(layers.s_factor, in_aoi),
          c_factor |-> ReclipFactor(layers.c_factor, in_aoi),
          p_factor |-> ReclipFactor(layers.p_factor, in_aoi)]
    /\ UNCHANGED <<in_aoi, inputs, src, layers, routerVars, concVars, hostVars, scaleVars, expVars>>

(***************************************************************************)
(* calculate() as one function of its inputs, called from process_rusle    *)
(***************************************************************************)

\* what the engine's datasets hold at the sampled pixel
WorldData ==
    [organic_carbon : OrganicCarbonSrc, clay : {Px(Data("clay", 30))},
     sand : {Px(Data("sand", 30))}, pcp_sum : PcpSumSrc,
     slope_deg : {MaskedPx, Px(Num(2)), Px(Num(45))},
     sr_b5 : BandSrc("SR_B5"), sr_b4 : {Px(Data("SR_B4", 1))},
     modis_lc : {MaskedPx, Px(Num(12)), Px(Num(255))}]

\* the five "custom or built" choices of calculate(): the layers that enter
\* the product
FactorLayers(inp, data, inside) ==
    LET ls == CalculateLSFactors(data.slope_deg, inp.pixel_size, inside)
    IN [k_factor |-> IF inp.custom_k_factor.given THEN inp.custom_k_factor.px
                     ELSE CalculateKFactor(data.organic_carbon, data.clay,
                                           data.sand, inside),
        r_factor |-> IF inp.custom_r_factor.given THEN inp.custom_r_factor.px
                     ELSE CalculateRFactor(data.pcp_sum, inside),
        l_factor |-> IF inp.custom_ls_factor.given THEN inp.custom_ls_factor.px
                     ELSE ls.l_factor,
        s_factor |-> IF inp.custom_ls_factor.given THEN Image(Fx(1))
                     ELSE ls.s_factor,
        c_factor |-> IF inp.custom_c_factor.given THEN inp.custom_c_factor.px
                     ELSE CalculateCFactor(data.sr_b5, data.sr_b4, inside),
        p_factor |-> IF inp.custom_p_factor.given THEN inp.custom_p_factor.px
                     ELSE CalculatePFactor(data.modis_lc, inside)]

\* the duration written into the expression
Calculate_Stamped(inp, data, inside, start_time, end_time) ==
    LET f == FactorLayers(inp, data, inside)
    IN [soil_loss |-> Binary("add", SoilLoss(f, inp.pixel_size, inside),
                             Image(end_time - start_time)),
        r_factor |-> ReclipFactor(f.r_factor, inside),
        k_factor |-> ReclipFactor(f.k_factor, inside),
        l_factor |-> ReclipFactor(f.l_factor, inside),
        s_factor |-> ReclipFactor(f.s_factor, inside),
        c_factor |-> ReclipFactor(f.c_factor, inside),
        p_factor |-> ReclipFactor(f.p_factor, inside),
        computation_time |-> end_time - start_time]

\* RUSLECalculator.calculate(inputs) -> RUSLEResult; start_time and end_time
\* are the two datetime.now() readings
Calculate(inp, data, inside, start_time, end_time) ==
    LET f == FactorLayers(inp, data, inside)
    IN [soil_loss |-> SoilLoss(f, inp.pixel_size, inside),
        r_factor |-> ReclipFactor(f.r_factor, inside),
        k_factor |-> ReclipFactor(f.k_factor, inside),
        l_factor |-> ReclipFactor(f.l_factor, inside),
        s_factor |-> ReclipFactor(f.s_factor, inside),
        c_factor |-> ReclipFactor(f.c_factor, inside),
        p_factor |-> ReclipFactor(f.p_factor, inside),
        computation_time |-> end_time - start_time]

\* the pixel size taken from the scale in use
ProcessInputs_PixelFromScale(adjusted_scale) ==
    [custom_k_factor |-> NoneImage, custom_r_factor |-> NoneImage,
     custom_ls_factor |-> NoneImage, custom_c_factor |-> NoneImage,
     custom_p_factor |-> NoneImage, pixel_size |-> adjusted_scale,
     export_scale |-> adjusted_scale]

\* RUSLEInput(aoi=..., date_from=..., date_to=..., dem_source=...,
\* export_scale=adjusted_scale): no custom factor, pixel_size at its default
ProcessInputs(adjusted_scale) ==
    [custom_k_factor |-> NoneImage, custom_r_factor |-> NoneImage,
     custom_ls_factor |-> NoneImage, custom_c_factor |-> NoneImage,
     custom_p_factor |-> NoneImage, pixel_size |-> 30,
     export_scale |-> adjusted_scale]

\* seconds a calculation may take
Durations == {1, 2}

\* export scales of the two requests
RunScales == {10, 90, 500}

NoRun == [export_scale |-> 0, inputs |-> ProcessInputs(0),
          result |-> Calculate(ProcessInputs(0),
                               CHOOSE d \in WorldData : TRUE, FALSE, 0, 0)]

NoRuns == [done |-> FALSE, inside |-> FALSE, area_km2 |-> 0,
           admin_level |-> 0, a |-> NoRun, b |-> NoRun]

\* process_rusle from the scale selection to calculator.calculate(inputs)
ProcessRun(export_scale, area_km2, admin_level, data, inside, duration) ==
    LET adjusted_scale ==
            AdjustedScale(export_scale, GetMinimumScale(area_km2, admin_level))
        rusle_inputs == ProcessInputs(adjusted_scale)
    IN [export_scale |-> export_scale, inputs |-> rusle_inputs,
        result |-> Calculate(rusle_inputs, data, inside, 0, duration)]

\* two process requests over the same AOI, window and DEM source while the
\* engine's data stay the same; their export scales may differ
RunTwice ==
    /\ ~runs.done
    /\ \E data \in WorldData, inside \in BOOLEAN,
          area_km2 \in {500, 600000}, admin_level \in AdminLevels,
          scale_a \in RunScales, scale_b \in RunScales,
          duration_a \in Durations, duration_b \in Durations :
         runs' = [done |-> TRUE, inside |-> inside, area_km2 |-> area_km2,
                  admin_level |-> admin_level,
                  a |-> ProcessRun(scale_a, area_km2, admin_level, data,
                                   inside, duration_a),
                  b |-> ProcessRun(scale_b, area_km2, admin_level, data,
                                   inside, duration_b)]
    /\ UNCHANGED <<mx, pf, tile, win, routerVars, concVars, hostVars,
                   scaleVars, rasterVars>>

(***************************************************************************)
(* The slope-length exponent as a pure function of slope percent           *)
(***************************************************************************)

\* slope percent samples around every range end, in 1/10000 percent
ExpSlopes == {-20000, -10000, -9999, 0, 10000, 10001, 30000, 30001,
              45000, 45001, 1000000, 1000001, 2000000}

\* the orders in which the four replacements can be applied
Orders == {o \in [1..4 -> 1..4] : \A i, j \in 1..4 : i # j => o[i] # o[j]}

NoMx == [done |-> FALSE, slope_perc |-> 0, order |-> <<1, 2, 3, 4>>,
         m |-> 0, m_order |-> 0]

\* m_exponent of rusle_calculator._calculate_ls_factors and of
\* rusle_utils.calculate_l_factor (the same chain) at one slope value, and
\* the same replacements applied in another order
EvalExponent ==
    /\ \E sp \in ExpSlopes, order \in Orders :
         mx' = [done |-> TRUE, slope_perc |-> sp, order |-> order,
                m |-> MExponent(Image(sp)).v.num,
                m_order |-> ApplyWheres(Image(Fx(1)), Image(sp), order).v.num]
    /\ UNCHANGED <<pf, tile, win, runs, routerVars, concVars, hostVars, scaleVars, rasterVars>>

(***************************************************************************)
(* Upload sessions: routers/upload.py, ShapefileHandler, and process_rusle *)
(* with a session_id                                                       *)
(***************************************************************************)

\* session directories one run may create
MaxSessions == 2

\* the session ids a client may send: any id an upload has handed out, and
\* 0 for a string that is no session id (an id not yet handed out cannot be
\* sent, uuid4 is always fresh)
KnownSessionIds == {0} \cup 1..session_counter

\* settings.max_aoi_area_km2
MAX_AOI_AREA_KM2 == 50000

\* the areas calculate_area_km2 may return for an upload
UploadAreas == {500, 50000, 50001}

\* what an upload meets: a file over the size limit, a name that is neither
\* .zip nor .geojson, content process_upload refuses with ValueError or with
\* another exception, a failing area calculation, or none of these
UploadFates ==
    {"file_too_large", "bad_type", "invalid_content", "unreadable_content",
     "area_error", "ok"}

NoUpload ==
    [op |-> "none", session_id |-> 0, status |-> 0, detail |-> "none",
     fate |-> "none", area_km2 |-> 0, cleanups |-> 0]

\* the directory left in place
CleanupSession_KeepsDir(dirs, session_id) == dirs

\* ShapefileHandler.cleanup_session(session_id): rmtree when the directory
\* exists, nothing otherwise
CleanupSession(dirs, session_id) ==
    IF session_id \in dirs THEN dirs \ {session_id} ELSE dirs

\* ShapefileHandler.process_upload: mkdir of the session directory, then the
\* read; on any exception the directory is removed and the exception re-raised
ProcessUpload(dirs, session_id, fate) ==
    LET made == dirs \cup {session_id}
    IN IF fate = "invalid_content"
       THEN [raised |-> "ValueError", dirs |-> made \ {session_id}]
       ELSE IF fate = "unreadable_content"
       THEN [raised |-> "Exception", dirs |-> made \ {session_id}]
       ELSE [raised |-> "none", dirs |-> made]

\* @router.post("/upload") upload_shapefile(file)
UploadShapefile(fate, area_km2) ==
    IF fate = "file_too_large"
    THEN /\ upload' = [NoUpload EXCEPT !.op = "upload", !.status = 413,
                                       !.detail = "file_too_large",
                                       !.fate = fate]
         /\ UNCHANGED <<sessions, session_counter>>
    ELSE IF fate = "bad_type"
    THEN /\ upload' = [NoUpload EXCEPT !.op = "upload", !.status = 400,
                                       !.detail = "bad_type", !.fate = fate]
         /\ UNCHANGED <<sessions, session_counter>>
    ELSE /\ session_counter < MaxSessions
         /\ session_counter' = session_counter + 1
         /\ LET session_id == session_counter + 1
                read == ProcessUpload(sessions, session_id, fate)
                trace == [NoUpload EXCEPT !.op = "upload",
                                          !.session_id = session_id,
                                          !.fate = fate]
            IN IF read.raised = "ValueError"
               THEN \* except ValueError: 400, no cleanup call
                    /\ sessions' = read.dirs
                    /\ upload' = [trace EXCEPT !.status = 400,
                                               !.detail = "invalid_content"]
               ELSE IF read.raised = "Exception" \/ fate = "area_error"
               THEN \* except Exception: cleanup_session, 500
                    /\ sessions' = CleanupSession(read.dirs, session_id)
                    /\ upload' = [trace EXCEPT !.status = 500,
                                               !.detail = "processing_failed",
                                               !.cleanups = 1]
               ELSE IF area_km2 > MAX_AOI_AREA_KM2
               THEN \* cleanup_session, then HTTPException(400) raised inside
                    \* the try block: it is an Exception and not a ValueError,
                    \* so the last except clause handles it
                    /\ sessions' = CleanupSession(
                                      CleanupSession(read.dirs, session_id),
                                      session_id)
                    /\ upload' = [trace EXCEPT !.status = 500,
                                               !.detail = "processing_failed",
                                               !.area_km2 = area_km2,
                                               !.cleanups = 2]
               ELSE /\ sessions' = read.dirs
                    /\ upload' = [trace EXCEPT !.status = 200,
                                               !.detail = "upload_successful",
                                               !.area_km2 = area_km2]

\* what shutil.rmtree does inside cleanup_session
CleanupFates == {"ok", "rmtree_error"}

\* @router.delete("/upload/{session_id}") cleanup_upload(session_id)
CleanupUpload(session_id, fate) ==
    IF session_id \in sessions /\ fate = "rmtree_error"
    THEN /\ upload' = [NoUpload EXCEPT !.op = "cleanup", !.status = 500,
                                       !.session_id = session_id,
                                       !.detail = "rmtree_error",
                                       !.fate = fate, !.cleanups = 1]
         /\ UNCHANGED <<sessions, cleaned>>
    ELSE /\ sessions' = CleanupSession(sessions, session_id)
         /\ cleaned' = cleaned \cup {session_id}
         /\ upload' = [NoUpload EXCEPT !.op = "cleanup", !.status = 200,
                                       !.session_id = session_id,
                                       !.detail = "cleaned_up",
                                       !.fate = fate, !.cleanups = 1]

\* session_dir.exists() in _get_aoi_from_session
SessionDirExists(session_id) == session_id \in sessions

\* what _get_aoi_from_session meets for this session id: a missing directory,
\* or whatever else the request meets
SessionFate(session_id, fate) ==
    IF ~SessionDirExists(session_id) THEN "session_not_found" ELSE fate

\* ProcessRequest with a session_id
SessionRequest(session_id) ==
    [export_scale |-> 90, admin_level |-> 2, session_id |-> session_id]

DoUpload ==
    /\ \E fate \in UploadFates :
         \E area_km2 \in IF fate = "ok" THEN UploadAreas ELSE {500} :
           UploadShapefile(fate, area_km2)
    /\ outcome' = NoOutcome
    /\ UNCHANGED <<gee_initialized, results_cache, job_counter, cleaned, init,
                   verified, concVars, scaleVars, expVars, rasterVars>>

DoCleanup ==
    /\ \E session_id \in KnownSessionIds, fate \in CleanupFates :
         CleanupUpload(session_id, fate)
    /\ outcome' = NoOutcome
    /\ UNCHANGED <<gee_initialized, results_cache, job_counter,
                   session_counter, init, verified, concVars, scaleVars,
                   expVars, rasterVars>>

DoSessionProcess ==
    /\ \E session_id \in KnownSessionIds :
         \E fate \in ProcessFates("session") \ {"session_not_found"} :
           \E k \in IF fate = "tile_error" THEN {3} ELSE {7} :
             /\ ProcessRusle(SessionRequest(session_id), "session", 500,
                             SessionFate(session_id, fate), k)
             /\ upload' = [NoUpload EXCEPT !.op = "process",
                                           !.session_id = session_id]
    /\ UNCHANGED <<sessions, session_counter, cleaned, init, verified,
                   concVars, scaleVars, expVars, rasterVars>>

DoSessionStatistics ==
    /\ \E job_id \in JobIds, fate \in ReduceFates : GetStatistics(job_id, fate)
    /\ upload' = [NoUpload EXCEPT !.op = "statistics"]
    /\ UNCHANGED <<sessions, session_counter, cleaned, init, verified,
                   concVars, scaleVars, expVars, rasterVars>>

(***************************************************************************)
(* gee_service.initialize_earth_engine and its callers                     *)
(***************************************************************************)

\* initialize_earth_engine calls one run may make
MaxInitCalls == 4

\* what the engine does with the three remote steps of one call
InitFates == {"ok", "auth_error", "init_error", "verify_error"}

\* settings.gee_project and another project id
Projects == {"gee_project", "other_project"}

NoInit ==
    [calls |-> 0, caller |-> "none", project_id |-> "none", force |-> FALSE,
     fate |-> "none", before |-> FALSE, remote_calls |-> 0, raised |-> FALSE,
     returned |-> FALSE]

\* the flag set ahead of the verification round-trip
InitializeEarthEngine_FlagFirst(flag, project_id, force, fate) ==
    IF flag /\ ~force
    THEN [flag |-> flag, remote_calls |-> 0, raised |-> FALSE,
          returned |-> TRUE, completed |-> FALSE]
    ELSE IF fate = "auth_error"
    THEN [flag |-> flag, remote_calls |-> 1, raised |-> TRUE,
          returned |-> FALSE, completed |-> FALSE]
    ELSE IF fate = "init_error"
    THEN [flag |-> flag, remote_calls |-> 2, raised |-> TRUE,
          returned |-> FALSE, completed |-> FALSE]
    ELSE IF fate = "verify_error"
    THEN [flag |-> TRUE, remote_calls |-> 3, raised |-> TRUE,
          returned |-> FALSE, completed |-> FALSE]
    ELSE [flag |-> TRUE, remote_calls |-> 3, raised |-> FALSE,
          returned |-> TRUE, completed |-> TRUE]

\* initialize_earth_engine(project_id, force): ee.Authenticate, ee.Initialize,
\* ee.Number(1).getInfo(), then _gee_initialized = True; an exception of any
\* step is logged and re-raised
InitializeEarthEngine(flag, project_id, force, fate) ==
    IF flag /\ ~force
    THEN [flag |-> flag, remote_calls |-> 0, raised |-> FALSE,
          returned |-> TRUE, completed |-> FALSE]
    ELSE IF fate = "auth_error"
    THEN [flag |-> flag, remote_calls |-> 1, raised |-> TRUE,
          returned |-> FALSE, completed |-> FALSE]
    ELSE IF fate = "init_error"
    THEN [flag |-> flag, remote_calls |-> 2, raised |-> TRUE,
          returned |-> FALSE, completed |-> FALSE]
    ELSE IF fate = "verify_error"
    THEN [flag |-> flag, remote_calls |-> 3, raised |-> TRUE,
          returned |-> FALSE, completed |-> FALSE]
    ELSE [flag |-> TRUE, remote_calls |-> 3, raised |-> FALSE,
          returned |-> TRUE, completed |-> TRUE]

\* one call and what it leaves behind
RecordInit(caller, project_id, force, fate) ==
    LET r == InitializeEarthEngine(gee_initialized, project_id, force, fate)
    IN /\ gee_initialized' = r.flag
       /\ verified' = (verified \/ r.completed)
       /\ init' = [calls |-> init.calls + 1, caller |-> caller,
                   project_id |-> project_id, force |-> force, fate |-> fate,
                   before |-> gee_initialized,
                   remote_calls |-> r.remote_calls, raised |-> r.raised,
                   returned |-> r.returned]

\* a direct call: lifespan() at startup, or any caller of the service
CallInitialize ==
    /\ init.calls < MaxInitCalls
    /\ \E project_id \in Projects, force \in BOOLEAN, fate \in InitFates :
         RecordInit("direct", project_id, force, fate)
    /\ UNCHANGED <<results_cache, job_counter, outcome, sessions,
                   session_counter, upload, cleaned, concVars, scaleVars,
                   expVars, rasterVars>>

\* RUSLECalculator.__init__ -> _ensure_gee_initialized(): a call only while
\* the flag is false
EnsureGeeInitialized ==
    /\ init.calls < MaxInitCalls
    /\ IF ~gee_initialized
       THEN \E fate \in InitFates :
              RecordInit("calculator", "gee_project", FALSE, fate)
       ELSE /\ init' = [NoInit EXCEPT !.calls = init.calls + 1,
                                      !.caller = "calculator",
                                      !.before = gee_initialized]
            /\ UNCHANGED <<gee_initialized, verified>>
    /\ UNCHANGED <<results_cache, job_counter, outcome, sessions,
                   session_counter, upload, cleaned, concVars, scaleVars,
                   expVars, rasterVars>>

HostIdle ==
    /\ sessions = {} /\ session_counter = 0
    /\ upload = NoUpload /\ cleaned = {}
    /\ init = NoInit /\ verified = FALSE

(***************************************************************************)
(* Specifications                                                          *)
(***************************************************************************)

RouterIdle ==
    /\ gee_initialized = FALSE
    /\ results_cache = <<>>
    /\ job_counter = 0
    /\ outcome = NoOutcome
    /\ ConcIdle /\ HostIdle

ScaleIdle == sel = NoSel /\ selPrev = NoSel

ExpIdle ==
    /\ mx = NoMx /\ pf = NoPf /\ tile = NoTile
    /\ win = NoWin /\ runs = NoRuns

RasterIdle ==
    /\ pc = "idle"
    /\ in_aoi = FALSE
    /\ inputs = DefaultInputs
    /\ src = NoSrc
    /\ layers = NoLayers
    /\ result = NoResult

\* the application after startup: lifespan() tried initialize_earth_engine
\* and either set the flag or logged the failure; the cache is empty
Init ==
    /\ gee_initialized \in BOOLEAN
    /\ results_cache = <<>>
    /\ job_counter = 0
    /\ outcome = NoOutcome
    /\ ConcIdle /\ HostIdle /\ ScaleIdle /\ ExpIdle /\ RasterIdle

Next == DoProcess \/ DoStatistics \/ DoExport \/ DoMapConfig \/ DoFoliumMap

Spec == Init /\ [][Next]_vars

InitScale == RouterIdle /\ ScaleIdle /\ ExpIdle /\ RasterIdle

NextScale == Select \/ SelectLarger

\* the server after startup with no request in flight
InitConc ==
    /\ gee_initialized \in BOOLEAN
    /\ results_cache = <<>>
    /\ job_counter = 0
    /\ outcome = NoOutcome
    /\ ConcIdle /\ HostIdle /\ ScaleIdle /\ ExpIdle /\ RasterIdle

NextConc ==
    \/ BeginProcess \/ ProcessCompute \/ ProcessStore
    \/ BeginRead \/ ReadCheck \/ ReadLookup \/ ReadEngine
    \/ Respond

SpecConc == InitConc /\ [][NextConc]_vars

SpecScale == InitScale /\ [][NextScale]_vars

InitExponent == RouterIdle /\ ScaleIdle /\ ExpIdle /\ RasterIdle

NextExponent == EvalExponent

SpecExponent == InitExponent /\ [][NextExponent]_vars

InitPFactor == RouterIdle /\ ScaleIdle /\ ExpIdle /\ RasterIdle

NextPFactor == EvalPFactor

SpecPFactor == InitPFactor /\ [][NextPFactor]_vars

InitTile == RouterIdle /\ ScaleIdle /\ ExpIdle /\ RasterIdle

NextTile == CallGetTileUrl

SpecTile == InitTile /\ [][NextTile]_vars

InitWindow == RouterIdle /\ ScaleIdle /\ ExpIdle /\ RasterIdle

NextWindow == SubmitWindow

SpecWindow == InitWindow /\ [][NextWindow]_vars

\* upload_dir is empty; startup set the flag or logged the failure
InitSession == Init

NextSession == DoUpload \/ DoCleanup \/ DoSessionProcess \/ DoSessionStatistics

SpecSession == InitSession /\ [][NextSession]_vars

\* the module as imported: _gee_initialized = False
InitInit == RouterIdle /\ ScaleIdle /\ ExpIdle /\ RasterIdle

NextInit == CallInitialize \/ EnsureGeeInitialized

SpecInit == InitInit /\ [][NextInit]_vars

InitRuns == RouterIdle /\ ScaleIdle /\ ExpIdle /\ RasterIdle

NextRuns == RunTwice

SpecRuns == InitRuns /\ [][NextRuns]_vars

\* calculate() is entered with an AOI, a pixel size and any custom factors
InitRaster ==
    /\ RouterIdle /\ ScaleIdle /\ ExpIdle
    /\ pc = "k"
    /\ in_aoi \in BOOLEAN
    /\ inputs \in RUSLEInputs
    /\ src = NoSrc
    /\ layers = NoLayers
    /\ result = NoResult

NextRaster == StepK \/ StepR \/ StepLS \/ StepC \/ StepP \/ StepCombine

SpecRaster == InitRaster /\ [][NextRaster]_vars

(***************************************************************************)
(* Properties                                                              *)
(***************************************************************************)

Max3(a, b, c) == Max(a, Max(b, c))

\* the admin-level bound as the specification tabulates it
StatedAdminBound(level) ==
    CASE level = 0 -> 250
      [] level = 1 -> 90
      [] level = 2 -> 30
      [] OTHER -> 90

\* the area bound as the specification tabulates it
StatedAreaBound(area) ==
    IF area > 500000 THEN 500
    ELSE IF area > 100000 THEN 250
    ELSE IF area > 10000 THEN 90
    ELSE IF area > 1000 THEN 30
    ELSE 10

\* C1: a completed process request used, answered with and cached the scale
\* max(requested, admin bound, area bound), and reported scale_adjusted
\* exactly when that scale differs from the requested one; (10, 600000 km2,
\* level 0) gives 500 and (90, 500 km2, level 2) gives 90, not adjusted.
C1_EffectiveScale ==
    (outcome.op = "process" /\ outcome.status = 200) =>
        LET effective == Max3(outcome.export_scale,
                              StatedAdminBound(outcome.admin_level),
                              StatedAreaBound(outcome.area_km2))
        IN /\ outcome.export_scale_used = effective
           /\ results_cache[outcome.job_id].export_scale_used = effective
           /\ outcome.scale_adjusted = (effective # outcome.export_scale)
           /\ (outcome.export_scale = 10 /\ outcome.area_km2 = 600000
                  /\ outcome.admin_level = 0)
                => outcome.export_scale_used = 500
           /\ (outcome.export_scale = 90 /\ outcome.area_km2 = 500
                  /\ outcome.admin_level = 2)
                => (outcome.export_scale_used = 90 /\ ~outcome.scale_adjusted)

C1_Witness ==
    /\ outcome.op = "process" /\ outcome.status = 200
    /\ outcome.export_scale = 10 /\ outcome.area_km2 = 600000
    /\ outcome.admin_level = 0
    /\ outcome.export_scale_used = 500 /\ outcome.scale_adjusted

\* C2: whenever the statistics or the export handler calls the engine for a
\* cached job, it does so at the job's export_scale_used, which is never finer
\* than the minimum the selector computed for the job's area and admin level.
C2_StatsExportAtEffectiveScale ==
    (outcome.op \in {"statistics", "export"} /\ outcome.engine_call # "none") =>
        LET cached == results_cache[outcome.job_id]
        IN /\ outcome.engine_scale = cached.export_scale_used
           /\ outcome.engine_scale >=
                  Max(StatedAdminBound(cached.request.admin_level),
                      StatedAreaBound(cached.area_km2))

\* C5: the admin-level bound is 250 for level 0, 90 for level 1, 30 for
\* level 2 and 90 for every other level.
C5_AdminBound == sel.done => sel.level_min = StatedAdminBound(sel.admin_level)

C5_Witness == sel.done /\ sel.admin_level = 3 /\ sel.level_min = 90

\* C6: the area bound is the scale of the first threshold the area strictly
\* exceeds, scanning from the largest; an area equal to a threshold falls in
\* the next lower tier and an area of 0 or less gives 10.
C6_AreaBound ==
    sel.done =>
        /\ sel.area_min = StatedAreaBound(sel.area_km2)
        /\ sel.area_km2 = 500000 => sel.area_min = 250
        /\ sel.area_km2 = 100000 => sel.area_min = 90
        /\ sel.area_km2 = 10000 => sel.area_min = 30
        /\ sel.area_km2 = 1000 => sel.area_min = 10
        /\ sel.area_km2 <= 0 => sel.area_min = 10

C6_Witness == sel.done /\ sel.area_km2 = 500000 /\ sel.area_min = 250

\* C7: with the requested scale and the admin level fixed, a larger area
\* never gets a finer effective scale.
C7_MonotoneInArea ==
    (sel.done /\ selPrev.done
        /\ selPrev.export_scale = sel.export_scale
        /\ selPrev.admin_level = sel.admin_level
        /\ selPrev.area_km2 <= sel.area_km2)
      => selPrev.adjusted_scale <= sel.adjusted_scale

C7_Witness ==
    /\ sel.done /\ selPrev.done
    /\ selPrev.export_scale = sel.export_scale
    /\ selPrev.admin_level = sel.admin_level
    /\ selPrev.area_km2 < sel.area_km2
    /\ selPrev.adjusted_scale < sel.adjusted_scale

\* the factors calculate() has obtained so far, by position
Obtained(factor) ==
    CASE factor = "k" -> pc \in {"r", "ls", "c", "p", "combine", "done"}
      [] factor = "r" -> pc \in {"ls", "c", "p", "combine", "done"}
      [] factor = "ls" -> pc \in {"c", "p", "combine", "done"}
      [] factor = "c" -> pc \in {"p", "combine", "done"}
      [] factor = "p" -> pc \in {"combine", "done"}

\* C3: every factor layer a builder produced is masked outside the AOI when
\* it enters the multiplication, so the re-clip returns it unchanged.
C3_BuilderOutputClipped ==
    /\ (Obtained("k") /\ ~inputs.custom_k_factor.given /\ ~in_aoi)
          => layers.k_factor.masked
    /\ (Obtained("r") /\ ~inputs.custom_r_factor.given /\ ~in_aoi)
          => layers.r_factor.masked
    /\ (Obtained("ls") /\ ~inputs.custom_ls_factor.given /\ ~in_aoi)
          => (layers.l_factor.masked /\ layers.s_factor.masked)
    /\ (Obtained("c") /\ ~inputs.custom_c_factor.given /\ ~in_aoi)
          => layers.c_factor.masked
    /\ (Obtained("p") /\ ~inputs.custom_p_factor.given /\ ~in_aoi)
          => layers.p_factor.masked
    /\ pc = "done" =>
          /\ ~inputs.custom_k_factor.given => result.k_factor = layers.k_factor
          /\ ~inputs.custom_r_factor.given => result.r_factor = layers.r_factor
          /\ ~inputs.custom_ls_factor.given =>
                 (result.l_factor = layers.l_factor
                     /\ result.s_factor = layers.s_factor)
          /\ ~inputs.custom_c_factor.given => result.c_factor = layers.c_factor
          /\ ~inputs.custom_p_factor.given => result.p_factor = layers.p_factor

\* A default run at a pixel outside the AOI: R, K and L left their builders
\* masked and the re-clip returned R unchanged.
C3_Witness ==
    /\ pc = "done" /\ ~in_aoi /\ inputs = DefaultInputs
    /\ layers.r_factor.masked /\ result.r_factor = layers.r_factor
    /\ layers.k_factor.masked /\ layers.l_factor.masked

AllDefined(f) ==
    /\ ~f.r_factor.masked /\ ~f.k_factor.masked /\ ~f.l_factor.masked
    /\ ~f.s_factor.masked /\ ~f.c_factor.masked /\ ~f.p_factor.masked

\* R * K * L * S * C * P * area as one product term
StatedProduct(f, area) ==
    App("multiply",
      <<App("multiply",
          <<App("multiply",
              <<App("multiply",
                  <<App("multiply",
                      <<App("multiply", <<f.r_factor.v, f.k_factor.v>>),
                        f.l_factor.v>>),
                    f.s_factor.v>>),
                f.c_factor.v>>),
            f.p_factor.v>>),
        Num(area)>>)

\* C4: where all six factors are defined, soil_loss is R*K*L*S*C*P times
\* pixel_size^2 / 10000 (0.09 for 30 m, also the script's default); the
\* returned layer is 0 at an AOI pixel where the product is missing and is
\* masked outside the AOI.
C4_SoilLossFormula ==
    pc = "done" =>
        /\ (in_aoi /\ AllDefined(layers)) =>
               /\ result.soil_loss =
                      Px(StatedProduct(layers, inputs.pixel_size * inputs.pixel_size))
               /\ inputs.pixel_size = 30 =>
                      /\ result.soil_loss.v.args[2] = Num(900)
                      /\ CalculateRusle(layers, 900) = result.soil_loss
        /\ (in_aoi /\ ~AllDefined(layers)) => result.soil_loss = Image(0)
        /\ ~in_aoi => result.soil_loss.masked

C4_Witness ==
    /\ pc = "done" /\ in_aoi /\ AllDefined(layers)
    /\ inputs = DefaultInputs
    /\ result.soil_loss.v.args[2] = Num(900)

\* C8: inside the AOI each builder returns its default where the source data
\* is missing (K 0.04, R 0, S 0.065, C 0.15, P 1.0) and the value computed
\* from the data where it is present; an all-masked soil input gives K = 0.04.
C8_GapFillDefaults ==
    /\ (pc = "r" /\ ~inputs.custom_k_factor.given /\ in_aoi) =>
          IF src.organic_carbon.masked \/ src.clay.masked \/ src.sand.masked
          THEN layers.k_factor = Image(400)
          ELSE /\ ~layers.k_factor.masked
               /\ layers.k_factor =
                      KProduct(LoadSoilData(src.organic_carbon, src.clay,
                                            src.sand, TRUE))
    /\ (pc = "ls" /\ ~inputs.custom_r_factor.given /\ in_aoi) =>
          IF src.pcp_sum.masked
          THEN layers.r_factor = Image(0)
          ELSE /\ ~layers.r_factor.masked
               /\ layers.r_factor = RProduct(src.pcp_sum)
    /\ (pc = "c" /\ ~inputs.custom_ls_factor.given /\ in_aoi) =>
          IF src.slope_deg.masked
          THEN layers.s_factor = Image(650)
          ELSE /\ ~layers.s_factor.masked
               /\ layers.s_factor = SProduct(SlopePercent(src.slope_deg))
    /\ (pc = "p" /\ ~inputs.custom_c_factor.given /\ in_aoi) =>
          IF src.sr_b5.masked \/ src.sr_b4.masked
          THEN layers.c_factor = Image(1500)
          ELSE /\ ~layers.c_factor.masked
               /\ layers.c_factor = CProduct(src.sr_b5, src.sr_b4)
    /\ (pc = "combine" /\ ~inputs.custom_p_factor.given /\ in_aoi) =>
          IF src.modis_lc.masked
          THEN layers.p_factor = Image(10000)
          ELSE /\ ~layers.p_factor.masked
               /\ layers.p_factor = PExpression(src.modis_lc)

C8_Witness ==
    /\ pc = "r" /\ ~inputs.custom_k_factor.given /\ in_aoi
    /\ src.loaded = "soil"
    /\ src.organic_carbon.masked /\ src.clay.masked /\ src.sand.masked
    /\ layers.k_factor = Image(400)

\* C9: at an AOI pixel where the slope is missing, the L factor the LS
\* builder returns is 1.
C9_LGapFilledWithOne ==
    (pc = "c" /\ ~inputs.custom_ls_factor.given /\ in_aoi /\ src.slope_deg.masked)
        => layers.l_factor = Image(10000)

\* the exponent as the specification tabulates it (1/10000 units)
StatedM(slope_perc) ==
    IF slope_perc > -10000 /\ slope_perc <= 10000 THEN 2000
    ELSE IF slope_perc > 10000 /\ slope_perc <= 30000 THEN 3000
    ELSE IF slope_perc > 30000 /\ slope_perc <= 45000 THEN 4000
    ELSE IF slope_perc > 45000 /\ slope_perc <= 1000000 THEN 5000
    ELSE 10000

\* the range conditions of the code that hold at a slope value
RangesHolding(slope_perc) ==
    {i \in 1..Len(M_RANGES) :
        And(Gt(Image(slope_perc), M_RANGES[i][1]),
            Lte(Image(slope_perc), M_RANGES[i][2])).v.num # 0}

\* C10: m is 0.2 on (-1, 1], 0.3 on (1, 3], 0.4 on (3, 4.5], 0.5 on
\* (4.5, 100] and 1 elsewhere; at most one range condition holds at any
\* slope, and every order of the four replacements gives the same m.
C10_ExponentTable ==
    mx.done =>
        /\ mx.m = StatedM(mx.slope_perc)
        /\ Cardinality(RangesHolding(mx.slope_perc)) <= 1
        /\ mx.m_order = mx.m
        /\ (mx.slope_perc <= -10000 \/ mx.slope_perc > 1000000) => mx.m = 10000

C10_Witness ==
    /\ mx.done /\ mx.slope_perc = 1000001 /\ mx.m = 10000
    /\ mx.order = <<4, 3, 2, 1>> /\ mx.m_order = 10000

\* the practice value the specification tabulates for a class in 1..17
StatedP(c) ==
    IF c \in 1..10 THEN 8000
    ELSE IF c \in {11, 13, 15, 16, 17} THEN 10000
    ELSE 5000

\* C11: for every land-cover class 1..17 at an AOI pixel the application's
\* lookup returns the tabulated value: 0.8 for 1..10, 1.0 for 11, 13, 15, 16,
\* 17 and 0.5 for 12 and 14.
C11_PFactorLookup ==
    (pf.done /\ pf.inside /\ ~pf.lc.masked /\ pf.lc.v.num \in 1..17)
        => pf.app = Image(StatedP(pf.lc.v.num))

C11_Witness ==
    /\ pf.done /\ pf.inside /\ pf.lc = Px(Num(12)) /\ pf.app = Image(5000)

\* C12: the application's builder and the script's calculate_p_factor return
\* the same P value for every class code, matched or unmatched.
C12_SingleFallback ==
    (pf.done /\ pf.inside /\ ~pf.lc.masked) => pf.app = pf.script

\* C20: the layer is reprojected to the supplied scale before the tile URL is
\* requested exactly when a scale is supplied and it exceeds 100; otherwise
\* the URL is requested from the layer unchanged.  One request either way.
C20_ReprojectAbove100 ==
    tile.done =>
        /\ tile.url.map_id_calls = 1
        /\ IF tile.scale.given /\ tile.scale.v > 100
           THEN tile.url.map_id_image =
                    [layer |-> tile.layer, crs |-> "EPSG:4326",
                     scale |-> tile.scale.v]
           ELSE tile.url.map_id_image = NativeImage(tile.layer)

C20_Witness ==
    /\ tile.done /\ tile.scale = IntScale(101)
    /\ tile.url.map_id_image.crs = "EPSG:4326"
    /\ tile.url.map_id_image.scale = 101

\* no request reached the engine and no calculator was constructed
NothingAsked(o) ==
    /\ o.engine_call = "none" /\ o.calculators = 0 /\ o.calculate_calls = 0
    /\ o.count_queries = 0 /\ o.area_queries = 0 /\ o.centroid_queries = 0
    /\ o.tile_requests = 0 /\ o.reductions = 0
    /\ o.tasks_created = 0 /\ o.task_starts = 0 /\ o.status_queries = 0

\* C13: a statistics request for a cached job issues exactly one reduction;
\* when the engine refuses it because the pixel budget would be exceeded the
\* endpoint returns an error outcome without statistics.
C13_StatisticsFailurePropagates ==
    (outcome.op = "statistics" /\ outcome.status # 404) =>
        /\ outcome.reductions = 1
        /\ outcome.fate = "too_many_pixels" =>
               (outcome.status = 500 /\ ~outcome.statistics)

C13_Witness ==
    /\ outcome.op = "statistics" /\ outcome.fate = "too_many_pixels"
    /\ outcome.status = 500 /\ outcome.reductions = 1
    /\ outcome.job_id \in DOMAIN results_cache

\* C14: a cache entry appears only with the successful response of the
\* process request that generated its job id, after one calculation and seven
\* tile-URL requests; a failed process request writes nothing; and no step of
\* any handler changes or removes an entry that exists.
C14_EntryCreatedOnceImmutable ==
    [][ /\ \A j \in DOMAIN results_cache :
             j \in DOMAIN results_cache' /\ results_cache'[j] = results_cache[j]
        /\ results_cache' # results_cache =>
             /\ outcome'.op = "process" /\ outcome'.status = 200
             /\ outcome'.calculate_calls = 1 /\ outcome'.tile_requests = 7
             /\ outcome'.job_id \notin DOMAIN results_cache
             /\ DOMAIN results_cache' =
                    DOMAIN results_cache \cup {outcome'.job_id}
        /\ (outcome'.op = "process" /\ outcome'.status # 200
               /\ outcome' # outcome)
             => results_cache' = results_cache ]_vars

C14_Witness ==
    /\ outcome.op = "process" /\ outcome.fate = "tile_error"
    /\ outcome.tile_requests = 7 /\ outcome.status = 500
    /\ DOMAIN results_cache = {1} /\ outcome.generated_job_id = 2

\* C16: statistics, export, map configuration and folium map for a job id
\* that is not cached return 404, ask nothing of the engine, construct no
\* calculator and leave the cache as it was.
C16_UnknownJobNotFound ==
    [][ (/\ outcome' # outcome
         /\ outcome'.op \in {"statistics", "export", "visualize", "folium"}
         /\ outcome'.job_id \notin DOMAIN results_cache)
        => /\ outcome'.status = 404
           /\ NothingAsked(outcome')
           /\ results_cache' = results_cache ]_vars

C16_Witness ==
    /\ outcome.op = "folium" /\ outcome.status = 404 /\ outcome.job_id = 2
    /\ DOMAIN results_cache = {1}

\* C17: a process request whose administrative region matches no feature
\* ends in an error outcome after one feature-count query; no calculator is
\* constructed or run, no scale is selected and the generated job id gets no
\* cache entry.
C17_RegionNotFound ==
    (outcome.op = "process" /\ outcome.fate = "region_not_found") =>
        /\ outcome.status >= 400
        /\ outcome.count_queries = 1
        /\ outcome.calculators = 0 /\ outcome.calculate_calls = 0
        /\ ~outcome.scale_selected /\ outcome.export_scale_used = 0
        /\ outcome.generated_job_id \notin DOMAIN results_cache

C17_Witness ==
    /\ outcome.op = "process" /\ outcome.fate = "region_not_found"
    /\ outcome.status = 400 /\ outcome.generated_job_id = 2
    /\ DOMAIN results_cache = {1}

\* C18: a successful export created one task from the image, description,
\* folder, region and scale it was given, started it once, asked for no
\* status, and returned the engine's task id.
C18_ExportSubmitOnce ==
    (outcome.op = "export" /\ outcome.status = 200) =>
        /\ outcome.tasks_created = 1 /\ outcome.task_starts = 1
        /\ outcome.status_queries = 0
        /\ outcome.task_id \in RemoteTaskIds
        /\ outcome.task =
               [image |-> <<"soil_loss", outcome.job_id>>,
                description |-> <<"RUSLE_soil_loss", outcome.job_id>>,
                folder |-> outcome.folder,
                region |-> <<"aoi", outcome.job_id>>,
                scale |-> results_cache[outcome.job_id].request.export_scale]

C18_Witness ==
    /\ outcome.op = "export" /\ outcome.status = 200
    /\ outcome.task_starts = 1 /\ outcome.task_id = 102
    /\ outcome.folder = "my_folder"

\* C19: when creating or starting the export task fails the export request
\* ends in an error outcome, no task id is returned, and the cached entry of
\* the job is what it was.
C19_ExportFailureNoHandle ==
    [][ (/\ outcome' # outcome
         /\ outcome'.op = "export"
         /\ outcome'.fate \in {"create_error", "start_error"})
        => /\ outcome'.status = 500
           /\ outcome'.task_id = 0
           /\ results_cache' = results_cache ]_vars

C19_Witness ==
    /\ outcome.op = "export" /\ outcome.fate = "start_error"
    /\ outcome.status = 500 /\ outcome.task_starts = 1 /\ outcome.task_id = 0

\* C15: with the handlers' steps interleaved in every order, a store for one
\* job id leaves every entry of another id in place and unchanged, and a
\* lookup of an id that has been stored returns the entry stored for it.
C15_CacheIsolation ==
    [][ /\ results_cache' # results_cache =>
             \E s \in TaskSlots :
                /\ tasks[s].pc = "store" /\ tasks'[s].pc = "done"
                /\ \A j \in DOMAIN results_cache \ {tasks[s].job_id} :
                      /\ j \in DOMAIN results_cache'
                      /\ results_cache'[j] = results_cache[j]
        /\ \A s \in TaskSlots :
             (/\ tasks[s].pc = "lookup" /\ tasks'[s].pc # "lookup"
              /\ tasks[s].job_id \in DOMAIN written)
             => /\ tasks'[s].pc = "engine"
                /\ tasks'[s].entry = written[tasks[s].job_id] ]_vars

\* a reader of job 1 holds its entry while the writer of job 2 has stored
C15_Witness ==
    /\ tasks[1].kind \in ReaderKinds /\ tasks[1].pc = "engine"
    /\ tasks[1].job_id = 1 /\ tasks[1].entry = written[1]
    /\ tasks[2].kind = "process" /\ tasks[2].pc = "done"
    /\ tasks[2].job_id = 2 /\ DOMAIN results_cache = {1, 2}

\* C21: every date pair handed to the R-factor and C-factor builders has
\* date_from on or before date_to.
C21_WindowOrdered ==
    (win.done /\ win.built) => win.window[1].day <= win.window[2].day

\* C23: with date_from equal to date_to the R-factor builder returns a band
\* whose value is 0 at every pixel of the AOI.
C23_EmptyWindowZero ==
    (win.done /\ win.built /\ win.inside /\ win.date_from = win.date_to)
        => (win.r.bands = 1 /\ win.r.px = Image(0))

\* the layers of a RUSLEResult, without its computation time
Expressions(r) ==
    <<r.soil_loss, r.r_factor, r.k_factor, r.l_factor, r.s_factor,
      r.c_factor, r.p_factor>>

C28_ScaleIndependent ==
    runs.done =>
        /\ runs.a.result.soil_loss = runs.b.result.soil_loss
        /\ runs.a.inputs.pixel_size = 30 /\ runs.b.inputs.pixel_size = 30
        /\ \A r \in {runs.a.result, runs.b.result} :
              (~r.soil_loss.masked /\ r.soil_loss.v.op = "multiply")
                 => r.soil_loss.v.args[2] = Num(900)

C28_Witness ==
    /\ runs.done /\ runs.inside
    /\ runs.a.export_scale # runs.b.export_scale
    /\ runs.a.inputs.export_scale # runs.b.inputs.export_scale
    /\ ~runs.a.result.soil_loss.masked
    /\ runs.a.result.soil_loss.v.op = "multiply"
    /\ runs.a.result.soil_loss = runs.b.result.soil_loss

\* C22: an upload whose area exceeds max_aoi_area_km2 is answered with 400
\* "area too large", and its session directory does not exist afterwards.
C22_TooLargeRejected400 ==
    (upload.op = "upload" /\ upload.fate = "ok"
        /\ upload.area_km2 > MAX_AOI_AREA_KM2)
        => /\ upload.status = 400
           /\ upload.detail = "area_too_large"
           /\ upload.session_id \notin sessions

\* C30: with the engine initialized, a process request for a session that
\* cleanup_session has removed is answered 400 "Session not found" and stores
\* nothing; cleaning up a session whose directory is gone succeeds and changes
\* nothing; no operation changes or drops an entry already in the cache, and
\* statistics for a cached job are still returned when the engine answers.
C30_CleanupThenProcess ==
    [][ /\ (upload'.op = "process" /\ gee_initialized
              /\ upload'.session_id \in cleaned)
           => /\ outcome'.status = 400
              /\ outcome'.fate = "session_not_found"
              /\ results_cache' = results_cache
        /\ (upload'.op = "cleanup" /\ upload'.session_id \notin sessions)
           => /\ upload'.status = 200
              /\ sessions' = sessions
              /\ results_cache' = results_cache
        /\ \A j \in DOMAIN results_cache :
              j \in DOMAIN results_cache' /\ results_cache'[j] = results_cache[j]
        /\ (upload'.op = "statistics" /\ outcome'.job_id \in DOMAIN results_cache
              /\ outcome'.fate = "ok")
           => outcome'.status = 200 /\ outcome'.statistics
      ]_vars

\* a job was cached from a session, the session was cleaned up, a new process
\* request for it was refused, and the job is still in the cache
C30_Witness ==
    /\ upload.op = "process" /\ upload.session_id \in cleaned
    /\ outcome.status = 400 /\ outcome.fate = "session_not_found"
    /\ \E j \in DOMAIN results_cache :
         results_cache[j].request.session_id = upload.session_id

\* a term with its sums and differences of known numbers worked out; a data
\* value of n percent is the number n
RECURSIVE Norm(_)
Norm(t) ==
    IF t.op = "num" THEN t
    ELSE IF t.args = <<>> THEN Num(Fx(t.num))
    ELSE LET a == [i \in DOMAIN t.args |-> Norm(t.args[i])]
         IN IF t.op \in {"add", "subtract"} /\ \A i \in DOMAIN a : a[i].op = "num"
            THEN Num(IF t.op = "add" THEN a[1].num + a[2].num
                     ELSE a[1].num - a[2].num)
            ELSE App(t.op, a)

\* the stated K for sand, clay (percent) and organic carbon, written out:
\* silt = 100 - sand - clay, sf = 1 - sand/100,
\* f_csand = 0.2 + 0.3*exp(-0.256*(silt/100 - 1)),
\* f_cl_si = (silt/(clay+silt))^0.3,
\* f_orgc = 1 - 0.25*org/(org + exp(3.72 - 2.95*org)),
\* f_hisand = 1 - 0.7*sf/(sf + exp(-5.51 + 22.9*sf))
StatedK(sand, clay, org) ==
    LET silt == Num(Fx(100) - Fx(sand) - Fx(clay))
        sf == App("subtract", <<Num(Fx(1)),
                                App("divide", <<Num(Fx(sand)), Num(Fx(100))>>)>>)
        f_csand ==
            App("add", <<Num(2000),
                App("multiply", <<Num(3000),
                    App("exp", <<App("multiply", <<Num(-2560),
                        App("subtract", <<App("divide", <<silt, Num(Fx(100))>>),
                                          Num(Fx(1))>>)>>)>>)>>)>>)
        f_cl_si ==
            App("pow", <<App("divide", <<silt,
                                         Num(Fx(clay) + silt.num)>>),
                         Num(3000)>>)
        f_orgc ==
            App("subtract", <<Num(Fx(1)),
                App("divide", <<App("multiply", <<Num(2500), Num(Fx(org))>>),
                    App("add", <<Num(Fx(org)),
                        App("exp", <<App("subtract", <<Num(37200),
                            App("multiply", <<Num(29500),
                                              Num(Fx(org))>>)>>)>>)>>)>>)>>)
        f_hisand ==
            App("subtract", <<Num(Fx(1)),
                App("divide", <<App("multiply", <<Num(7000), sf>>),
                    App("add", <<sf,
                        App("exp", <<App("add", <<Num(-55100),
                            App("multiply", <<Num(229000), sf>>)>>)>>)>>)>>)>>)
    IN App("multiply", <<App("multiply", <<App("multiply", <<f_csand, f_cl_si>>),
                                           f_orgc>>),
                         f_hisand>>)

\* the K builder has just run on soil data present at a pixel of the AOI
KBuiltFromData ==
    /\ pc = "r" /\ in_aoi /\ src.loaded = "soil"
    /\ ~src.organic_carbon.masked /\ ~src.clay.masked /\ ~src.sand.masked

\* C25: where the soil data are present, K is the product
\* f_csand * f_cl_si * f_orgc * f_hisand of the stated sub-formulas with
\* silt = 100 - sand - clay; so it is for sand 30, clay 30, organic carbon 2.
C25_KFormula ==
    KBuiltFromData =>
        /\ ~layers.k_factor.masked
        /\ Norm(layers.k_factor.v)
             = Norm(StatedK(src.sand.v.num, src.clay.v.num,
                            src.organic_carbon.v.num))

C25_Witness ==
    /\ KBuiltFromData
    /\ src.sand.v.num = 30 /\ src.clay.v.num = 30
    /\ src.organic_carbon.v.num = 2
    /\ layers.k_factor.v.op = "multiply"
    /\ Norm(layers.k_factor.v).args[1].args[1].args[2].args[1].args[1]
         = Num(Fx(40))

\* C26: for an AOI of at most 1,000 km2 and a requested scale of 10 there is
\* an admin level among 0, 1, 2 for which the effective scale is 10 and
\* scale_adjusted is false.
C26_SmallAreaTenMetres ==
    (sel.done /\ sel.area_km2 >= 0 /\ sel.area_km2 <= 1000
        /\ sel.export_scale = 10)
        => \E admin_level \in AdminLevels :
             LET s == SelectScale(sel.export_scale, sel.area_km2, admin_level)
             IN s.adjusted_scale = 10 /\ ~s.scale_was_adjusted

\* C27: a process request made while the engine is not initialized is
\* answered 503 with no job id generated, no AOI loaded, no calculator
\* constructed and the cache untouched; the flag stays as it was.
C27_UninitializedRefused ==
    [][ (~gee_initialized /\ outcome'.op = "process")
          => /\ outcome'.status = 503
             /\ outcome'.generated_job_id = 0 /\ job_counter' = job_counter
             /\ outcome'.count_queries = 0 /\ outcome'.area_queries = 0
             /\ outcome'.calculators = 0 /\ NothingAsked(outcome')
             /\ results_cache' = results_cache
             /\ gee_initialized' = gee_initialized
      ]_vars

C27_Witness ==
    /\ ~gee_initialized /\ outcome.op = "process" /\ outcome.status = 503
    /\ outcome.aoi_source = "admin" /\ outcome.export_scale = 10

\* the step is a call of initialize_earth_engine
InitCalled == init'.calls # init.calls /\ init'.fate # "none"

\* C29: the flag is true only if some call completed authentication,
\* initialization and verification; a call with the flag true and force
\* false makes no remote call and returns true; a failing call raises and
\* leaves the flag as it was; the flag never goes from true to false.
C29_FlagDiscipline ==
    [][ /\ gee_initialized' => verified'
        /\ (InitCalled /\ gee_initialized /\ ~init'.force)
              => (init'.remote_calls = 0 /\ init'.returned /\ ~init'.raised)
        /\ (InitCalled /\ init'.fate # "ok"
              /\ (~gee_initialized \/ init'.force))
              => (init'.raised /\ ~init'.returned
                  /\ gee_initialized' = gee_initialized)
        /\ gee_initialized => gee_initialized'
      ]_vars

\* a forced re-initialization failed at the verification step and the flag
\* stayed true
C29_Witness ==
    /\ init.before /\ init.force /\ init.fate = "verify_error"
    /\ init.raised /\ init.remote_calls = 3
    /\ gee_initialized /\ verified

====
